---- MODULE Spec2Model ----
(***************************************************************************)
(* Booking-slot suggestion backend (marsalva-smart-backend).               *)
(*                                                                         *)
(* The repository holds several iterations of one server.js.  Each         *)
(* iteration is modelled by its own handlers and its own specification:    *)
(*   SpecV11  src/server.js, lines 1-578      (V11, FRANJAS 1H)            *)
(*   SpecV11b src/unnamed/part_002, 423-1145  (V11, buildAvailability)     *)
(*   SpecV15  src/unnamed/part_005 / part_004 (V15 and V18)                *)
(*   SpecV5   src/unnamed/part_000            (V5, route simulation)       *)
(*   SpecV22  src/unnamed/part_003            (V22)                        *)
(*   SpecRoute        part_006 (V3) and part_000 (V5), route checks      *)
(*   SpecV2           src/unnamed/part_001 (V2, strict timing)             *)
(*   SpecRequestV11b  part_002, POST /appointment-request                  *)
(*   SpecRequestV11   src/server.js 512-576, POST /appointment-request     *)
(*   SpecRequestV22   part_003, POST /appointment-request                  *)
(*   SpecAdminV10     src/server.js 585-1111, /admin routes (V10)          *)
(*   SpecGeo          part_000, geocodeAddress and getTravelTimeMinutes    *)
(*   SpecDuration     part_000 112-121, parseDurationMinutes               *)
(*   SpecCityV11      src/server.js, same-locality rule of V11             *)
(*   SpecConcurrentV11b part_002 1069-1138, overlapping requests           *)
(*   SpecFeasibility  part_000 211-248, isSlotFeasible on its own          *)
(*                                                                         *)
(* Dates.  A JavaScript Date is modelled by the minutes its local fields   *)
(* (getHours, setHours, getDay ...) read, counted from the midnight that   *)
(* starts day 0; day 0 is a Sunday.  A Firestore Timestamp is stored as    *)
(* the Spanish wall-clock minute W of its instant; toDate() of it reads    *)
(* W - tz on a server whose zone is tz minutes behind Europe/Madrid.       *)
(***************************************************************************)
EXTENDS Integers, Sequences, FiniteSets, TLC

VARIABLES
  tz,            \* minutes Europe/Madrid is ahead of the server's own zone
  now,           \* the current instant, as Spanish wall-clock minutes
  apiKey,        \* GOOGLE_MAPS_API_KEY is configured
  appointments,  \* collection "appointments": doc id -> document or NoDoc
  calendarBlocks,\* collection "calendarBlocks": doc id -> document or NoDoc
  geocodeCache,  \* the keys of the in-memory geocodeCache Map
  distanceCache, \* the keys of the in-memory distanceCache Map (V5)
  changeRequests,            \* collection "changeRequests", in order of creation
  onlineAppointmentRequests, \* collection "onlineAppointmentRequests", likewise
  settings,      \* collection "settings": doc id -> value (V10)
  externalServices, \* collection "externalServices": doc id -> document or NoDoc
  fetchLog,      \* the external requests sent so far, oldest first
  inFlight,      \* the handlers suspended at an await: call -> what it holds
  resp           \* the answer of the last request, or NoResp

\* the collections and the log that the availability handlers leave alone
sideState == <<changeRequests, onlineAppointmentRequests, settings, externalServices, fetchLog,
               inFlight>>
vars == <<tz, now, apiKey, appointments, calendarBlocks, geocodeCache, distanceCache,
          sideState, resp>>


\* A missing numeric field (undefined / null).
Absent == 0 - 1
NoDoc == [exists |-> FALSE]
NoResp == [status |-> 0]

InitSide ==
  /\ changeRequests = <<>>
  /\ onlineAppointmentRequests = <<>>
  /\ settings = [id \in {"admin_access", "homeserve"} |-> NoDoc]
  /\ externalServices = <<>>
  /\ fetchLog = <<>>
  /\ inFlight = <<>>

MinutesPerDay == 1440

Min2(a, b) == IF a <= b THEN a ELSE b
Max2(a, b) == IF a >= b THEN a ELSE b
AbsDiff(a, b) == IF a >= b THEN a - b ELSE b - a

\* Date field readers.
DayOf(d) == d \div MinutesPerDay
getMinutesFromMidnight(d) == d % MinutesPerDay
getHours(d) == (d % MinutesPerDay) \div 60
getDay(d) == DayOf(d) % 7

\* new Date(new Date(d).toLocaleString("en-US", {timeZone: "Europe/Madrid"})):
\* the Spanish wall clock of d, re-read in the server's zone.
toSpainDate(d) == d + tz
\* Timestamp.toDate(): the instant of a stored Timestamp, in the server's zone.
toDate(w) == w - tz
\* new Date(): the current instant in the server's zone.
newDate == now - tz

addMinutes(d, m) == d + m
addDays(d, days) == addMinutes(d, days * 24 * 60)
setTime(base, h, m) == DayOf(base) * MinutesPerDay + h * 60 + m
\* formatTime / formatHHMM: "HH:MM", kept as the minute of the day it names.
formatTime(d) == getMinutesFromMidnight(d)
\* formatDateYYYYMMDD / isoDate / toDayKeyES: "YYYY-MM-DD", kept as the day index.
formatDateYYYYMMDD(d) == DayOf(toSpainDate(d))
\* a weekend test that forgets the Saturday
isSundayOnly(d) == getDay(toSpainDate(d)) = 0
isWeekendES(d) == getDay(toSpainDate(d)) = 0 \/ getDay(toSpainDate(d)) = 6

overlaps(aStart, aEnd, bStart, bEnd) == aStart < bEnd /\ bStart < aEnd

\* String.includes over the status values the model stores.
IncludesCancel(s) == s \in {"cancelled", "canceled", "cancelada"}
IncludesArchiv(s) == s \in {"archived", "archivada"}
toLowerCase(s) ==
  CASE s = "Algeciras" -> "algeciras"
    [] s = "ALGECIRAS" -> "algeciras"
    [] s = "Tarifa" -> "tarifa"
    [] OTHER -> s

(***************************************************************************)
(* Geography.  Every location of the model lies on one meridian; lat is    *)
(* counted in hundredths of a degree from a reference parallel, and the    *)
(* haversine formula reduces to R * dLat (in radians): 1.112 km per unit.  *)
(***************************************************************************)
MetresPerLatUnit == 1112
\* distance in metres between two known points of the meridian
haversineMetres(latA, latB) == MetresPerLatUnit * AbsDiff(latA, latB)

\* The external geocoder: query string -> lat, or Absent for zero results.
\* A query is the list of its comma-separated parts.
GeoService(full) ==
  CASE full = <<>> -> Absent
    [] Head(full) = "calle near" -> 2
    [] Head(full) = "calle far" -> 9
    [] Head(full) = "calle puerto" -> 1
    [] Head(full) = "Algeciras" -> 0
    [] Head(full) = "Tarifa" -> 9
    [] OTHER -> Absent


(***************************************************************************)
(* V11, src/server.js lines 1-578.                                         *)
(*                                                                         *)
(* An "appointments" document of this iteration:                           *)
(*   date            "YYYY-MM-DD" as a day index, or Absent                *)
(*   startTime       "HH:MM" as a minute of the day, or Absent             *)
(*   endTime         "HH:MM" as a minute of the day, or Absent             *)
(*   durationMinutes a number, 0 when the field is missing                 *)
(*   start, end      Timestamps, or Absent                                 *)
(*   status          a string; cancelled a boolean                         *)
(*   city, address   strings ("" when missing)                             *)
(*   lat             a number (lng is then a number too), or Absent        *)
(*   createdAt, updatedAt   a number, 0 when the field is missing          *)
(*   requestedDate   a Timestamp, or Absent; requestedStartTime and        *)
(*   requestedEndTime   "HH:MM" as written by POST /appointment-request    *)
(***************************************************************************)
WINDOW_MINUTES == 60
MAX_KM_BETWEEN_VISITS == 5

SCHEDULE(block) ==
  IF block = "afternoon"
    THEN [startHour |-> 17, startMinute |-> 0, endHour |-> 20, endMinute |-> 0]
    ELSE [startHour |-> 9, startMinute |-> 0, endHour |-> 14, endMinute |-> 0]

\* Number(v) of a positive finite number, else 60 (0 stands for every other value).
parseDurationMinutesV11(v) == IF v > 0 THEN v ELSE 60

\* "afternoon" or a string containing "tard"; anything else, also a missing
\* block, is the morning.
normalizeBlock(b) == IF b \in {"afternoon", "tarde"} THEN "afternoon" ELSE "morning"

isCancelledAppointment(data) == data.cancelled \/ IncludesCancel(data.status)

NoInterval == [ok |-> FALSE, start |-> 0, end |-> 0, dateKey |-> Absent]

\* the tail of extractIntervalAny, once the fields are read:
\* Timestamps first, then date + start + end, then date + start + duration
intervalFrom(baseDate, st, en, startTs, endTs, dur) ==
  IF startTs # Absent /\ endTs # Absent
    THEN [ok |-> TRUE, start |-> startTs, end |-> endTs,
          dateKey |-> formatDateYYYYMMDD(startTs)]
  ELSE IF baseDate # Absent /\ st # Absent /\ en # Absent
    THEN [ok |-> TRUE, start |-> baseDate + st, end |-> baseDate + en,
          dateKey |-> formatDateYYYYMMDD(baseDate)]
  ELSE IF baseDate # Absent /\ st # Absent
    THEN [ok |-> TRUE, start |-> baseDate + st,
          end |-> addMinutes(baseDate + st, dur),
          dateKey |-> formatDateYYYYMMDD(baseDate)]
  ELSE NoInterval

\* parseDateAny of a Timestamp: the midnight of its Spanish day
parseDateAnyTs(w) == IF w = Absent THEN Absent ELSE DayOf(toSpainDate(toDate(w))) * MinutesPerDay
\* parseDateAny of "YYYY-MM-DD": toSpainDate of the local midnight, set back to 00:00
parseDateAnyStr(day) ==
  IF day = Absent THEN Absent ELSE DayOf(toSpainDate(day * MinutesPerDay)) * MinutesPerDay
\* d.start?.toDate && toSpainDate(d.start.toDate())
tsField(w) == IF w = Absent THEN Absent ELSE toSpainDate(toDate(w))

\* parseHHMM of a stored "HH:MM": null when the string has another format
parseHHMM(v) == IF v >= 0 THEN v ELSE Absent

extractIntervalAny(d) ==
  intervalFrom(IF d.date # Absent THEN parseDateAnyStr(d.date)
               ELSE IF d.requestedDate # Absent THEN parseDateAnyTs(d.requestedDate)
               ELSE parseDateAnyTs(d.start),
               IF parseHHMM(d.startTime) # Absent THEN parseHHMM(d.startTime)
               ELSE parseHHMM(d.requestedStartTime),
               IF parseHHMM(d.endTime) # Absent THEN parseHHMM(d.endTime)
               ELSE parseHHMM(d.requestedEndTime),
               tsField(d.start), tsField(d.end),
               parseDurationMinutesV11(d.durationMinutes))

\* Firestore's orderBy(field, "desc"): only the documents that hold the field,
\* highest value first, equal values by document id, highest first.
RECURSIVE orderByDesc(_, _)
orderByDesc(ids, field) ==
  IF ids = {} THEN <<>>
  ELSE LET top == CHOOSE i \in ids : \A j \in ids :
                    \/ appointments[j][field] < appointments[i][field]
                    \/ appointments[j][field] = appointments[i][field] /\ j <= i
       IN  <<top>> \o orderByDesc(ids \ {top}, field)

RECURSIVE SetToSeq(_)
SetToSeq(ids) ==
  IF ids = {} THEN <<>>
  ELSE LET lo == CHOOSE i \in ids : \A j \in ids : i <= j
       IN  <<lo>> \o SetToSeq(ids \ {lo})

ExistingIds == {i \in DOMAIN appointments : appointments[i].exists}
IdsWith(field) == {i \in ExistingIds : appointments[i][field] > 0}

\* The three queries of loadBusyIntervals; qfail counts the queries that reject.
loadDocs(qfail) ==
  IF qfail = 0 THEN orderByDesc(IdsWith("createdAt"), "createdAt")
  ELSE IF qfail = 1 THEN orderByDesc(IdsWith("updatedAt"), "updatedAt")
  ELSE SetToSeq(ExistingIds)

\* one turn of the loop of loadBusyIntervals
busyEntry(id, a, it, fromDate, toDateExclusive) ==
  IF isCancelledAppointment(a) THEN <<>>
  ELSE IF ~it.ok THEN <<>>
  ELSE IF it.start >= toDateExclusive \/ it.end < fromDate THEN <<>>
  ELSE <<[id |-> id, dateKey |-> it.dateKey, start |-> it.start, end |-> it.end,
          city |-> a.city, address |-> a.address, lat |-> a.lat]>>

RECURSIVE busyOf(_, _, _)
busyOf(docs, fromDate, toDateExclusive) ==
  IF docs = <<>> THEN <<>>
  ELSE busyEntry(Head(docs), appointments[Head(docs)],
                 extractIntervalAny(appointments[Head(docs)]),
                 fromDate, toDateExclusive)
       \o busyOf(Tail(docs), fromDate, toDateExclusive)

loadBusyIntervals(fromDate, toDateExclusive, qfail) ==
  busyOf(loadDocs(qfail), fromDate, toDateExclusive)

\* [address, city].filter(Boolean).join(", ")
fullAddress(address, city) ==
  (IF address # "" THEN <<address>> ELSE <<>>) \o (IF city # "" THEN <<city>> ELSE <<>>)

Located(lat, fetched) == [threw |-> FALSE, lat |-> lat, fetched |-> fetched]
GeoThrew == [threw |-> TRUE, lat |-> Absent, fetched |-> {}]

\* geocodeAddress under the outcome geo of the external service during this
\* request: "ok", "http" (an answer that is not ok) or "throw" (fetch rejects).
\* [threw, lat, fetched]: fetched holds the key the call adds to the cache.
geocodeFull(full, geo) ==
  IF ~apiKey THEN Located(Absent, {})
  ELSE IF full = <<>> THEN Located(Absent, {})
  ELSE IF full \in geocodeCache THEN Located(GeoService(full), {})
  ELSE IF geo = "throw" THEN GeoThrew
  ELSE IF geo = "http" THEN Located(Absent, {})
  ELSE Located(GeoService(full), {full})

geocodeAddressV11(address, city, geo) == geocodeFull(fullAddress(address, city), geo)

\* typeof a.lat === "number" && typeof a.lng === "number" ? {lat, lng}
\*                                       : await geocodeAddress(a.address, a.city)
locationV11(a, geo) ==
  IF a.lat # Absent THEN Located(a.lat, {})
  ELSE geocodeAddressV11(a.address, a.city, geo)

\* distanceKm(a, b) > MAX_KM_BETWEEN_VISITS; a missing point is Infinity away.
tooFarV11(latA, latB) ==
  \/ latA = Absent
  \/ latB = Absent
  \/ haversineMetres(latA, latB) > MAX_KM_BETWEEN_VISITS * 1000

\* one turn of the "5 km" loop: g is the booking's location, rest the verdict
\* of the turns that follow it
rule5kmTurn(g, serviceLoc, rest) ==
  IF g.threw THEN [verdict |-> "throw", fetched |-> {}]
  ELSE IF tooFarV11(serviceLoc, g.lat) THEN [verdict |-> "far", fetched |-> g.fetched]
  ELSE [verdict |-> rest.verdict, fetched |-> g.fetched \cup rest.fetched]

\* The "5 km" loop over the day's bookings: [verdict, fetched], verdict one of
\* "ok", "far" (the loop broke) and "throw".
RECURSIVE rule5km(_, _, _)
rule5km(dayBusy, serviceLoc, geo) ==
  IF dayBusy = <<>> THEN [verdict |-> "ok", fetched |-> {}]
  ELSE rule5kmTurn(locationV11(Head(dayBusy), geo), serviceLoc,
                   rule5km(Tail(dayBusy), serviceLoc, geo))

conflictV11(visitStart, visitEnd, dayBusy) ==
  \E k \in 1..Len(dayBusy) :
    overlaps(visitStart, visitEnd, dayBusy[k].start, dayBusy[k].end)

slotVerdictV11(r) ==
  IF r.verdict = "ok" THEN [verdict |-> "offer", fetched |-> r.fetched]
  ELSE IF r.verdict = "far" THEN [verdict |-> "skip", fetched |-> r.fetched]
  ELSE [verdict |-> "throw", fetched |-> {}]

\* the turn without its "visitEnd > blockEnd" test
slotV11Unbounded(cursor, blockEnd, durationMin, dayBusy, serviceLoc, geo) ==
  IF conflictV11(cursor, addMinutes(cursor, durationMin), dayBusy)
    THEN [verdict |-> "skip", fetched |-> {}]
  ELSE IF Len(dayBusy) > 0 /\ apiKey /\ serviceLoc # Absent
    THEN slotVerdictV11(rule5km(dayBusy, serviceLoc, geo))
  ELSE [verdict |-> "offer", fetched |-> {}]

\* One turn of the while loop for the grid point cursor:
\* [verdict, fetched], verdict one of "offer", "skip" and "throw".
slotV11(cursor, blockEnd, durationMin, dayBusy, serviceLoc, geo) ==
  IF addMinutes(cursor, durationMin) > blockEnd
    THEN [verdict |-> "skip", fetched |-> {}]
  ELSE IF conflictV11(cursor, addMinutes(cursor, durationMin), dayBusy)
    THEN [verdict |-> "skip", fetched |-> {}]
  ELSE IF Len(dayBusy) > 0 /\ apiKey /\ serviceLoc # Absent
    THEN slotVerdictV11(rule5km(dayBusy, serviceLoc, geo))
  ELSE [verdict |-> "offer", fetched |-> {}]

\* The first busy booking of the day that has a city: dayBusy.find((x) => x.city)
RECURSIVE focusCityOf(_)
focusCityOf(dayBusy) ==
  IF dayBusy = <<>> THEN ""
  ELSE IF Head(dayBusy).city # "" THEN Head(dayBusy).city
  ELSE focusCityOf(Tail(dayBusy))

\* The grid points of a block: cursor, cursor + 60, ... while cursor + 60 <= blockEnd.
gridFrom(cursor, blockEnd) ==
  [k \in 1..(IF blockEnd - cursor >= WINDOW_MINUTES
               THEN (blockEnd - cursor - WINDOW_MINUTES) \div 60 + 1 ELSE 0) |->
     cursor + 60 * (k - 1)]

gridV11(day, sch) ==
  gridFrom(IF setTime(day, sch.startHour, 0) < setTime(day, sch.startHour, sch.startMinute)
             THEN addMinutes(setTime(day, sch.startHour, 0), 60)
             ELSE setTime(day, sch.startHour, 0),
           setTime(day, sch.endHour, sch.endMinute))

SkipDay == [skip |-> TRUE, threw |-> FALSE, date |-> Absent, slots |-> <<>>, fetched |-> {}]

offeredOf(grid, v) ==
  SelectSeq(grid, LAMBDA c : \E k \in 1..Len(grid) : grid[k] = c /\ v[k].verdict = "offer")

slotsOut(offered) ==
  [k \in 1..Len(offered) |->
     [startTime |-> formatTime(offered[k]),
      endTime |-> formatTime(addMinutes(offered[k], WINDOW_MINUTES))]]

\* what the day contributes once every grid point has its verdict v[k]
dayAnswerV11(dayKey, grid, v) ==
  [skip |-> \A k \in 1..Len(grid) : v[k].verdict # "offer",
   threw |-> \E k \in 1..Len(grid) : v[k].verdict = "throw",
   date |-> dayKey,
   slots |-> slotsOut(offeredOf(grid, v)),
   fetched |-> UNION {v[k].fetched : k \in 1..Len(grid)}]

dayGridV11(dayKey, grid, blockEnd, durationMin, dayBusy, serviceLoc, geo) ==
  dayAnswerV11(dayKey, grid,
    [k \in 1..Len(grid) |->
       slotV11(grid[k], blockEnd, durationMin, dayBusy, serviceLoc, geo)])

cityMismatch(focusCity, serviceCity) ==
  focusCity # "" /\ serviceCity # "" /\ toLowerCase(focusCity) # toLowerCase(serviceCity)

dayWithBusyV11(day, sch, durationMin, serviceCity, serviceLoc, dayBusy, geo) ==
  IF cityMismatch(focusCityOf(dayBusy), serviceCity) THEN SkipDay
  ELSE dayGridV11(formatDateYYYYMMDD(day), gridV11(day, sch),
                  setTime(day, sch.endHour, sch.endMinute),
                  durationMin, dayBusy, serviceLoc, geo)

dayBusyOf(busy, dayKey) == SelectSeq(busy, LAMBDA x : x.dateKey = dayKey)

\* One turn of the day loop: [skip, threw, date, slots, fetched].
dayV11(day, block, durationMin, serviceCity, serviceLoc, busy, geo) ==
  IF isWeekendES(day) THEN SkipDay
  ELSE dayWithBusyV11(day, SCHEDULE(block), durationMin, serviceCity, serviceLoc,
                      dayBusyOf(busy, formatDateYYYYMMDD(day)), geo)

\* Math.min(30, Math.max(1, Number(req.body.rangeDays || 14)))
rangeDaysV11(r) == Min2(30, Max2(1, IF r = 0 THEN 14 ELSE r))

daysJoin(d, rest) ==
  [threw |-> d.threw \/ rest.threw,
   days |-> (IF d.skip THEN <<>> ELSE <<[date |-> d.date, slots |-> d.slots]>>)
            \o rest.days,
   fetched |-> d.fetched \cup rest.fetched]

RECURSIVE daysOutV11(_, _, _, _, _, _, _, _, _)
daysOutV11(i, rangeDays, startDay, block, durationMin, serviceCity, serviceLoc, busy, geo) ==
  IF i >= rangeDays THEN [threw |-> FALSE, days |-> <<>>, fetched |-> {}]
  ELSE daysJoin(dayV11(addDays(startDay, i), block, durationMin, serviceCity,
                       serviceLoc, busy, geo),
                daysOutV11(i + 1, rangeDays, startDay, block, durationMin,
                           serviceCity, serviceLoc, busy, geo))

answerV11(g, out) ==
  IF out.threw THEN [status |-> 500, days |-> <<>>, fetched |-> g.fetched]
  ELSE [status |-> 200, days |-> out.days, fetched |-> g.fetched \cup out.fetched]

\* the handler from "Geo del servicio" on: g is the client's location
computeV11(g, rangeDays, startDay, block, apData, busy, geo) ==
  IF g.threw THEN [status |-> 500, days |-> <<>>, fetched |-> {}]
  ELSE answerV11(g, daysOutV11(0, rangeDays, startDay, block,
                               parseDurationMinutesV11(apData.durationMinutes),
                               apData.city, g.lat, busy, geo))

\* startDay = toSpainDate(now), now = toSpainDate(new Date()), at 00:00
startDayV11 == DayOf(toSpainDate(toSpainDate(newDate))) * MinutesPerDay

\* app.post("/availability-smart") of V11: the answer and the keys the request
\* adds to geocodeCache.  body = [token, block, rangeDays, qfail, geo]; token 0
\* is a missing or blank token; qfail and geo are what the store and the
\* geocoder do during the request.
availabilitySmartV11(body) ==
  IF body.token = 0 THEN [status |-> 400, days |-> <<>>, fetched |-> {}]
  ELSE IF ~appointments[body.token].exists
    THEN [status |-> 404, days |-> <<>>, fetched |-> {}]
  ELSE IF body.qfail >= 3 THEN [status |-> 500, days |-> <<>>, fetched |-> {}]
  ELSE computeV11(locationV11(appointments[body.token], body.geo),
                  rangeDaysV11(body.rangeDays), startDayV11,
                  normalizeBlock(body.block), appointments[body.token],
                  loadBusyIntervals(startDayV11,
                                    addDays(startDayV11, rangeDaysV11(body.rangeDays)),
                                    body.qfail),
                  body.geo)

(***************************************************************************)
(* The bounded world of SpecV11.                                           *)
(***************************************************************************)
\* the document ids of "appointments" are 1..MaxAppts; id 1 is the client's
MaxAppts == 2
\* the days the model's bookings fall on: Thursday (4) .. Thursday + DaySpan - 1
DaySpan == 1
FirstBookingDay == 4

At(day, hh, mm) == day * MinutesPerDay + hh * 60 + mm

NowChoices == {At(FirstBookingDay, 8, 0), At(FirstBookingDay, 10, 30)}
TzChoices == {0, 120}

BaseDoc ==
  [exists |-> TRUE, status |-> "confirmed", cancelled |-> FALSE,
   date |-> Absent, startTime |-> Absent, endTime |-> Absent,
   durationMinutes |-> 0, start |-> Absent, end |-> Absent,
   city |-> "", address |-> "", lat |-> Absent, createdAt |-> 1, updatedAt |-> 1,
   requestedBlock |-> "", requestedDate |-> Absent,
   requestedStartTime |-> Absent, requestedEndTime |-> Absent]

\* the client's own document: no visit planned yet
TokenDocsV11 ==
  {[BaseDoc EXCEPT !.durationMinutes = c[1], !.lat = c[2],
                   !.city = "Algeciras", !.address = "calle near"] :
     c \in {<<0, 0>>, <<90, 0>>, <<90, Absent>>}}

\* a booking 10:00-11:00 written as date + startTime + endTime
BookedV11(day) ==
  [BaseDoc EXCEPT !.date = day, !.startTime = 600, !.endTime = 660]

BookingDocsV11 ==
  UNION {
    { BookedV11(day),
      \* the same, cancelled by flag
      [BookedV11(day) EXCEPT !.cancelled = TRUE],
      \* date + startTime only, 17:30: the end is start + 60
      [BookedV11(day) EXCEPT !.startTime = 1050, !.endTime = Absent],
      \* start / end Timestamps, 10:00-11:30
      [BaseDoc EXCEPT !.start = At(day, 10, 0), !.end = At(day, 11, 30)],
      \* an evening visit, 22:30-23:30, as Timestamps
      [BaseDoc EXCEPT !.start = At(day, 22, 30), !.end = At(day, 23, 30)],
      \* an address the geocoder resolves 10 km away, in another city
      [BookedV11(day) EXCEPT !.address = "calle far", !.city = "Tarifa"],
      \* direct coordinates 2.2 km away, the city in another letter case,
      \* written later and without updatedAt
      [BookedV11(day) EXCEPT !.lat = 2, !.city = "ALGECIRAS",
                             !.createdAt = 2, !.updatedAt = 0],
      \* a document written without createdAt
      [BookedV11(day) EXCEPT !.createdAt = 0]
    } : day \in FirstBookingDay..(FirstBookingDay + DaySpan - 1) }

\* the requests, each with what the store and the geocoder do while it runs:
\* qfail queries of loadBusyIntervals reject, the geocoder answers geo
RequestsV11 ==
  [token : 0..MaxAppts, block : {"", "afternoon"}, rangeDays : {2},
   qfail : {0}, geo : {"ok"}]
  \cup
  [token : {1}, block : {"morning"}, rangeDays : {0, 1},
   qfail : {0}, geo : {"ok"}]
  \cup
  [token : {1}, block : {"morning"}, rangeDays : {2},
   qfail : 0..3, geo : {"ok"}]
  \cup
  [token : {1}, block : {"morning"}, rangeDays : {2},
   qfail : {0}, geo : {"http", "throw"}]

InitV11 ==
  /\ tz \in TzChoices
  /\ now = At(FirstBookingDay, 8, 0)
  /\ apiKey \in BOOLEAN
  /\ \E t \in TokenDocsV11 :
       appointments = [i \in 1..MaxAppts |-> IF i = 1 THEN t ELSE NoDoc]
  /\ calendarBlocks = <<>>
  /\ geocodeCache = {}
  /\ distanceCache = {}
  /\ resp = NoResp
  /\ InitSide

\* the external system books a visit
PutAppointmentV11 ==
  \E id \in 2..MaxAppts, doc \in BookingDocsV11 :
    /\ ~appointments[id].exists
    /\ appointments' = [appointments EXCEPT ![id] = doc]
    /\ resp' = NoResp
    /\ UNCHANGED <<sideState, tz, now, apiKey, calendarBlocks, geocodeCache, distanceCache>>

\* the external system cancels a visit
CancelAppointmentV11 ==
  \E id \in 2..MaxAppts :
    /\ appointments[id].exists
    /\ ~isCancelledAppointment(appointments[id])
    /\ appointments' = [appointments EXCEPT ![id] = [@ EXCEPT !.status = "cancelled"]]
    /\ resp' = NoResp
    /\ UNCHANGED <<sideState, tz, now, apiKey, calendarBlocks, geocodeCache, distanceCache>>

Tick ==
  \E t \in NowChoices :
    /\ t > now
    /\ now' = t
    /\ resp' = NoResp
    /\ UNCHANGED <<sideState, tz, apiKey, appointments, calendarBlocks, geocodeCache, distanceCache>>

AnswerV11(body, r) ==
  /\ resp' = [status |-> r.status, days |-> r.days, body |-> body]
  /\ geocodeCache' = geocodeCache \cup r.fetched
  /\ UNCHANGED <<sideState, tz, now, apiKey, appointments, calendarBlocks, distanceCache>>

AvailabilitySmartV11 ==
  \E body \in RequestsV11 : AnswerV11(body, availabilitySmartV11(body))

NextV11 ==
  \/ PutAppointmentV11
  \/ CancelAppointmentV11
  \/ Tick
  \/ AvailabilitySmartV11

SpecV11 == InitV11 /\ [][NextV11]_vars

(***************************************************************************)
(* Properties of V11 (src/server.js), over the answer kept in resp.         *)
(***************************************************************************)
Answered200 == resp.status = 200
\* the bookings of the store: every document but the client's own
BookingIds == ExistingIds \ {resp.body.token}
\* the instant a returned slot starts at
SlotStart(e, s) == e.date * MinutesPerDay + s.startTime
\* the service duration of the client the answer was computed for
ServiceDuration == parseDurationMinutesV11(appointments[resp.body.token].durationMinutes)
IsCancelled(a) == a.cancelled \/ a.status \in {"cancelled", "canceled", "cancelada"}
ReturnedDates == {resp.days[k].date : k \in 1..Len(resp.days)}

\* C1: in every answer, the window [slotStart, slotStart + service duration)
\* of every returned slot is disjoint from the [start, end) interval of every
\* non-cancelled booking stored for that day that extractIntervalAny parses.
C1_NoSlotOverlapsStoredBooking ==
  Answered200 =>
    \A k \in 1..Len(resp.days) : \A j \in 1..Len(resp.days[k].slots) :
      \A i \in BookingIds :
        (/\ ~IsCancelled(appointments[i])
         /\ extractIntervalAny(appointments[i]).ok
         /\ DayOf(extractIntervalAny(appointments[i]).start) = resp.days[k].date)
        => ~overlaps(SlotStart(resp.days[k], resp.days[k].slots[j]),
                     SlotStart(resp.days[k], resp.days[k].slots[j]) + ServiceDuration,
                     extractIntervalAny(appointments[i]).start,
                     extractIntervalAny(appointments[i]).end)

\* the case of C1 in which the loader's first query answers and every stored
\* booking carries createdAt: there the overlap test sees every booking
C1_HoldsWhenEveryBookingHasCreatedAt ==
  (/\ Answered200
   /\ resp.body.qfail = 0
   /\ \A i \in BookingIds : appointments[i].createdAt > 0)
  => C1_NoSlotOverlapsStoredBooking

FourMorningSlots ==
  <<[startTime |-> 9 * 60, endTime |-> 10 * 60],
    [startTime |-> 10 * 60, endTime |-> 11 * 60],
    [startTime |-> 11 * 60, endTime |-> 12 * 60],
    [startTime |-> 12 * 60, endTime |-> 13 * 60]>>

\* the weekdays among the rangeDays days the answer covers
WeekdaysCovered ==
  {d \in DayOf(startDayV11)..(DayOf(startDayV11) + rangeDaysV11(resp.body.rangeDays) - 1) :
     d % 7 \notin {0, 6}}

C4_Case ==
  /\ Answered200
  /\ resp.body.block \in {"", "morning"}
  /\ appointments[resp.body.token].durationMinutes = 90
  /\ \A i \in BookingIds : IsCancelled(appointments[i])

\* C4: a client whose service lasts 90 minutes asks for the morning while the
\* store holds no live booking: every weekday of the range is returned, each
\* with exactly 09:00-10:00, 10:00-11:00, 11:00-12:00, 12:00-13:00 (no 13:00
\* slot; each endTime is the start plus 60 minutes).
C4_Morning90IsFourHourlySlots ==
  C4_Case =>
    /\ ReturnedDates = WeekdaysCovered
    /\ \A k \in 1..Len(resp.days) : resp.days[k].slots = FourMorningSlots

\* a 90-minute morning answer over a store with a cancelled booking at 10:00
C4_Witness ==
  /\ C4_Case
  /\ BookingIds # {}
  /\ Len(resp.days) >= 2
  /\ resp.days[1].slots = FourMorningSlots

\* C7: no returned day is a Saturday (6) or a Sunday (0).
C7_NoWeekendDayReturned ==
  Answered200 => \A k \in 1..Len(resp.days) : resp.days[k].date % 7 \notin {0, 6}

\* an answer over the default 14 days, which span two weekends: the ten
\* weekdays are returned, a Friday and the Monday after it among them
C7_Witness ==
  /\ Answered200
  /\ resp.body.rangeDays = 0
  /\ Len(resp.days) = 10
  /\ \E d \in ReturnedDates : d % 7 = 5 /\ (d + 3) \in ReturnedDates

\* C8: no returned slot of the current day starts before the current Spanish
\* time, and the slots of a later day do not depend on the time of day.
C8_NoPastSlotOfToday ==
  Answered200 =>
    \A k \in 1..Len(resp.days) : \A j \in 1..Len(resp.days[k].slots) :
      resp.days[k].date = DayOf(now) =>
        SlotStart(resp.days[k], resp.days[k].slots[j]) >= now

\* C10: without an API key, a day holding a live booking 10:00-11:00 that has
\* no coordinates is absent from the answer.
C10_DayWithUnlocatedBookingExcluded ==
  (Answered200 /\ ~apiKey) =>
    \A i \in BookingIds :
      (/\ ~IsCancelled(appointments[i])
       /\ appointments[i].lat = Absent
       /\ appointments[i].createdAt > 0
       /\ appointments[i].date # Absent
       /\ appointments[i].startTime = 10 * 60
       /\ appointments[i].endTime = 11 * 60)
      => appointments[i].date \notin ReturnedDates

\* the three queries of loadBusyIntervals rejected while the request was served
StoreFailedV11 == resp.status \notin {0, 400, 404} /\ resp.body.qfail >= 3

\* C16: no request is answered 500, and a request during which the store
\* rejects every query of loadBusyIntervals is answered 200 with no days.
C16_FailureAnswersEmptyDays ==
  /\ resp.status # 500
  /\ StoreFailedV11 => (resp.status = 200 /\ resp.days = <<>>)

(***************************************************************************)
(* V11 with buildAvailability, src/unnamed/part_002 lines 423-1145.        *)
(*                                                                         *)
(* An "appointments" document of this iteration:                           *)
(*   date        "YYYY-MM-DD" as a day index (field date, scheduledDate    *)
(*               or day), or Absent                                        *)
(*   startAt, endAt   Timestamps, or Absent                                *)
(*   startTime, time, endTime   "HH:MM" as a minute of the day, or Absent  *)
(*   durationMinutes  a number, 0 when the field is missing                *)
(*   status      a string; inCalendar a boolean                            *)
(*   city, address strings; lat a number or Absent; createdAt as in V11    *)
(***************************************************************************)
SLOT_STEP_MIN == 60
SLOT_DISPLAY_WINDOW_MIN == 60
MAX_HOP_KM == 5
DEFAULT_DURATION_MIN == 60
DEFAULT_RANGE_DAYS == 14
\* HOME_ALGECIRAS, the reference parallel of the model's geography
HOME_ALGECIRAS == 0

isoDate(d) == DayOf(toSpainDate(d))
\* new Date(y, mo, da, 0, 0, 0, 0): the local midnight of the day
parseISODate(day) == day * MinutesPerDay
getSpainNow == toSpainDate(newDate)

\* the geocoder's "locality" component
GeoLocality(q) ==
  CASE q = <<"calle near">> -> "Algeciras"
    [] q = <<"calle far">> -> "Tarifa"
    [] OTHER -> ""

normalizeBlockV11b(b) ==
  IF b \in {"afternoon", "tarde", "pm"} THEN "afternoon" ELSE "morning"

\* the first candidate field that is a positive number, at least 15; else 60
pickDurationMinutes(d) ==
  IF d.durationMinutes > 0 THEN Max2(15, d.durationMinutes) ELSE DEFAULT_DURATION_MIN

NoLoc == [threw |-> FALSE, known |-> FALSE, lat |-> Absent, city |-> "", fetched |-> {}]
LocAt(lat, city, fetched) ==
  [threw |-> FALSE, known |-> TRUE, lat |-> lat, city |-> city, fetched |-> fetched]

\* geocodeAddress: memory and persistent cache, then the API key, then the
\* request to the geocoder, whose outcome during this request is geo
geocodeAddressV11b(q, geo) ==
  IF q \in geocodeCache THEN LocAt(GeoService(q), GeoLocality(q), {})
  ELSE IF ~apiKey THEN NoLoc
  ELSE IF geo = "throw" THEN [NoLoc EXCEPT !.threw = TRUE]
  ELSE IF geo = "http" THEN NoLoc
  ELSE IF GeoService(q) = Absent THEN NoLoc
  ELSE LocAt(GeoService(q), GeoLocality(q), {q})

getLocationFromDoc(data, geo) ==
  IF data.lat # Absent THEN LocAt(data.lat, data.city, {})
  ELSE IF data.address # "" THEN geocodeAddressV11b(<<data.address>>, geo)
  ELSE NoLoc

\* distanceKm(locA, locB) > MAX_HOP_KM, for two known locations
tooFarV11b(latA, latB) == haversineMetres(latA, latB) > MAX_HOP_KM * 1000

\* layout B of parseAppointmentInterval: base is the local midnight of the date
intervalOfStrings(base, stMin, etMin, dur) ==
  IF stMin = Absent THEN NoInterval
  ELSE [ok |-> TRUE, start |-> toSpainDate(addMinutes(base, stMin)),
        end |-> toSpainDate(IF etMin # Absent THEN addMinutes(base, etMin)
                            ELSE addMinutes(addMinutes(base, stMin), dur)),
        dateKey |-> Absent]

parseAppointmentInterval(data, fallbackDateISO) ==
  IF data.startAt # Absent
    THEN [ok |-> TRUE, start |-> toSpainDate(toDate(data.startAt)),
          end |-> toSpainDate(IF data.endAt # Absent THEN toDate(data.endAt)
                              ELSE addMinutes(toDate(data.startAt),
                                              pickDurationMinutes(data))),
          dateKey |-> Absent]
  ELSE intervalOfStrings(
         parseISODate(IF data.date # Absent THEN data.date ELSE fallbackDateISO),
         IF data.startTime # Absent THEN data.startTime ELSE data.time,
         data.endTime, pickDurationMinutes(data))

isBlockingStatus(data) ==
  IF IncludesCancel(data.status) THEN FALSE
  ELSE IF IncludesArchiv(data.status) THEN FALSE
  ELSE IF data.inCalendar THEN TRUE
  ELSE IF data.status \in {"accepted", "scheduled", "confirmed", "calendar",
                           "in_calendar", "alta", "en_curso", "done"} THEN TRUE
  ELSE data.startAt # Absent \/ data.startTime # Absent

\* the documents one of the three where(field, "==", dayISO) queries returns
IdsOfDay(dayISO) == {i \in ExistingIds : appointments[i].date = dayISO}

\* results.values(): the where-queries' documents, or, when they return
\* nothing, the documents holding createdAt, latest first
resultsOfDay(dayISO) ==
  IF IdsOfDay(dayISO) # {} THEN SetToSeq(IdsOfDay(dayISO))
  ELSE orderByDesc(IdsWith("createdAt"), "createdAt")

keptOfDay(id, data, interval, dayISO) ==
  IF ~interval.ok THEN <<>>
  ELSE IF isoDate(interval.start) # dayISO THEN <<>>
  ELSE IF ~isBlockingStatus(data) THEN <<>>
  ELSE <<[id |-> id, data |-> data, start |-> interval.start, end |-> interval.end]>>

RECURSIVE outOfDay(_, _)
outOfDay(docs, dayISO) ==
  IF docs = <<>> THEN <<>>
  ELSE keptOfDay(Head(docs), appointments[Head(docs)],
                 parseAppointmentInterval(appointments[Head(docs)], dayISO), dayISO)
       \o outOfDay(Tail(docs), dayISO)

RemoveAt(s, k) == SubSeq(s, 1, k - 1) \o SubSeq(s, k + 1, Len(s))

\* out.sort((a, b) => a.interval.start - b.interval.start), a stable sort
RECURSIVE sortByStart(_)
sortByStart(s) ==
  IF s = <<>> THEN <<>>
  ELSE LET k == CHOOSE k \in 1..Len(s) : \A j \in 1..Len(s) :
                  s[k].start < s[j].start \/ (s[k].start = s[j].start /\ k <= j)
       IN  <<s[k]>> \o sortByStart(RemoveAt(s, k))

fetchAppointmentsForDay(dayISO) == sortByStart(outOfDay(resultsOfDay(dayISO), dayISO))

withLoc(appt, loc) == [start |-> appt.start, end |-> appt.end, data |-> appt.data, loc |-> loc]

existingWithLocOf(existing, geo) ==
  [k \in 1..Len(existing) |->
     withLoc(existing[k], getLocationFromDoc(existing[k].data, geo))]

\* prev: the last booking that ends by t; next: the first that starts at or
\* after reserveEnd.  Index 0 stands for null.
prevOf(existing, t) ==
  IF \E k \in 1..Len(existing) : existing[k].end <= t
    THEN CHOOSE k \in 1..Len(existing) :
           /\ existing[k].end <= t
           /\ \A j \in 1..Len(existing) : existing[j].end <= t => j <= k
    ELSE 0
nextOf(existing, reserveEnd) ==
  IF \E k \in 1..Len(existing) : existing[k].start >= reserveEnd
    THEN CHOOSE k \in 1..Len(existing) :
           /\ existing[k].start >= reserveEnd
           /\ \A j \in 1..Len(existing) : existing[j].start >= reserveEnd => k <= j
    ELSE 0

hopTooFar(existing, k, safeTargetLat) ==
  /\ k # 0
  /\ existing[k].loc.known
  /\ tooFarV11b(existing[k].loc.lat, safeTargetLat)

\* one turn of the slot loop: is the slot that starts at t pushed?
slotOkV11b(t, dayEnd, durMin, existing, safeTargetLat) ==
  IF addMinutes(t, durMin) > dayEnd THEN FALSE
  ELSE IF \E k \in 1..Len(existing) :
            overlaps(t, addMinutes(t, durMin), existing[k].start, existing[k].end)
    THEN FALSE
  ELSE IF apiKey /\ hopTooFar(existing, prevOf(existing, t), safeTargetLat) THEN FALSE
  ELSE IF apiKey /\ hopTooFar(existing, nextOf(existing, addMinutes(t, durMin)),
                              safeTargetLat) THEN FALSE
  ELSE TRUE

cityOfAppt(x) == IF x.loc.known /\ x.loc.city # "" THEN x.loc.city ELSE x.data.city

\* the score of a slot: +2 when the day has a booking in the target's city,
\* +1 when the day has a booking at all
scoreV11b(existing, targetCity) ==
  (IF targetCity # "" /\ \E k \in 1..Len(existing) : cityOfAppt(existing[k]) = targetCity
     THEN 2 ELSE 0)
  + (IF Len(existing) > 0 THEN 1 ELSE 0)

\* a sort that puts the later slot first among slots of one score
RECURSIVE sortSlotsLatestFirst(_)
sortSlotsLatestFirst(s) ==
  IF s = <<>> THEN <<>>
  ELSE LET k == CHOOSE k \in 1..Len(s) : \A j \in 1..Len(s) :
                  \/ s[k].score > s[j].score
                  \/ s[k].score = s[j].score /\ s[k].startTime > s[j].startTime
                  \/ s[k].score = s[j].score /\ s[k].startTime = s[j].startTime /\ k <= j
       IN  <<s[k]>> \o sortSlotsLatestFirst(RemoveAt(s, k))

\* slots.sort((a, b) => (b._score - a._score) || (start(a) - start(b)))
RECURSIVE sortSlots(_)
sortSlots(s) ==
  IF s = <<>> THEN <<>>
  ELSE LET k == CHOOSE k \in 1..Len(s) : \A j \in 1..Len(s) :
                  \/ s[k].score > s[j].score
                  \/ s[k].score = s[j].score /\ s[k].startTime < s[j].startTime
                  \/ s[k].score = s[j].score /\ s[k].startTime = s[j].startTime /\ k <= j
       IN  <<s[k]>> \o sortSlots(RemoveAt(s, k))

cleanSlots(s) ==
  [k \in 1..Len(s) |-> [startTime |-> s[k].startTime, endTime |-> s[k].endTime]]

\* the grid: t = dayStart, dayStart + 60, ... while t < dayEnd
gridV11b(dayStart, dayEnd) ==
  [k \in 1..((dayEnd - dayStart + SLOT_STEP_MIN - 1) \div SLOT_STEP_MIN) |->
     addMinutes(dayStart, SLOT_STEP_MIN * (k - 1))]

slotsOfDayV11b(grid, dayEnd, durMin, existing, safeTargetLat, score) ==
  LET pushed == SelectSeq(grid, LAMBDA t : slotOkV11b(t, dayEnd, durMin, existing, safeTargetLat))
  IN  [k \in 1..Len(pushed) |->
         [startTime |-> formatTime(pushed[k]),
          endTime |-> formatTime(addMinutes(pushed[k], SLOT_DISPLAY_WINDOW_MIN)),
          score |-> score]]

dayOutV11b(dayISO, slots, existing) ==
  [skip |-> slots = <<>>,
   threw |-> \E k \in 1..Len(existing) : existing[k].loc.threw,
   date |-> dayISO,
   slots |-> cleanSlots(sortSlots(slots)),
   fetched |-> UNION {existing[k].loc.fetched : k \in 1..Len(existing)}]

dayWithExistingV11b(dayISO, cfg, durMin, existing, safeTargetLat, targetCity) ==
  dayOutV11b(dayISO,
             slotsOfDayV11b(gridV11b(setTime(parseISODate(dayISO), cfg.startHour, cfg.startMinute),
                                     setTime(parseISODate(dayISO), cfg.endHour, cfg.endMinute)),
                            setTime(parseISODate(dayISO), cfg.endHour, cfg.endMinute),
                            durMin, existing, safeTargetLat,
                            scoreV11b(existing, targetCity)),
             existing)

\* one turn of the day loop of buildAvailability
dayV11b(dayDate, block, durMin, safeTargetLat, targetCity, geo) ==
  IF isWeekendES(dayDate) THEN SkipDay
  ELSE dayWithExistingV11b(isoDate(dayDate), SCHEDULE(block), durMin,
                           existingWithLocOf(fetchAppointmentsForDay(isoDate(dayDate)), geo),
                           safeTargetLat, targetCity)

RECURSIVE daysOfV11b(_, _, _, _, _, _, _)
daysOfV11b(i, rangeDays, block, durMin, safeTargetLat, targetCity, geo) ==
  IF i >= rangeDays THEN [threw |-> FALSE, days |-> <<>>, fetched |-> {}]
  ELSE daysJoin(dayV11b(addDays(getSpainNow, i), block, durMin, safeTargetLat,
                        targetCity, geo),
                daysOfV11b(i + 1, rangeDays, block, durMin, safeTargetLat,
                           targetCity, geo))

\* days.sort((a, b) => a.date.localeCompare(b.date))
RECURSIVE sortDays(_)
sortDays(s) ==
  IF s = <<>> THEN <<>>
  ELSE LET k == CHOOSE k \in 1..Len(s) : \A j \in 1..Len(s) :
                  s[k].date < s[j].date \/ (s[k].date = s[j].date /\ k <= j)
       IN  <<s[k]>> \o sortDays(RemoveAt(s, k))

answerV11b(targetLoc, out) ==
  IF out.threw THEN [status |-> 500, days |-> <<>>, fetched |-> targetLoc.fetched]
  ELSE [status |-> 200, days |-> sortDays(out.days),
        fetched |-> targetLoc.fetched \cup out.fetched]

buildAvailability(tokenDoc, block, rangeDays, targetLoc, geo) ==
  IF targetLoc.threw THEN [status |-> 500, days |-> <<>>, fetched |-> {}]
  ELSE answerV11b(targetLoc,
         daysOfV11b(0, rangeDays, block, pickDurationMinutes(tokenDoc),
                    IF targetLoc.known THEN targetLoc.lat ELSE HOME_ALGECIRAS,
                    IF targetLoc.known /\ targetLoc.city # "" THEN targetLoc.city
                    ELSE tokenDoc.city,
                    geo))

\* Math.max(1, Math.min(30, Number(req.body?.rangeDays || DEFAULT_RANGE_DAYS)))
rangeDaysV11b(r) == Max2(1, Min2(30, IF r = 0 THEN DEFAULT_RANGE_DAYS ELSE r))

\* app.post("/availability-smart") of part_002; body = [token, block, rangeDays, geo]
availabilitySmartV11b(body) ==
  IF body.token = 0 THEN [status |-> 400, days |-> <<>>, fetched |-> {}]
  ELSE IF ~appointments[body.token].exists
    THEN [status |-> 404, days |-> <<>>, fetched |-> {}]
  ELSE buildAvailability(appointments[body.token], normalizeBlockV11b(body.block),
                         rangeDaysV11b(body.rangeDays),
                         getLocationFromDoc(appointments[body.token], body.geo),
                         body.geo)

(***************************************************************************)
(* The bounded world of SpecV11b.                                          *)
(***************************************************************************)
\* the document ids of "appointments" are 1..MaxApptsB; id 1 is the client's
MaxApptsB == 3

BaseDocB ==
  [exists |-> TRUE, status |-> "confirmed", inCalendar |-> FALSE,
   date |-> Absent, startAt |-> Absent, endAt |-> Absent,
   startTime |-> Absent, time |-> Absent, endTime |-> Absent,
   durationMinutes |-> 0, city |-> "", address |-> "", lat |-> Absent,
   createdAt |-> 1, updatedAt |-> 1]

TokenDocsV11b ==
  {[BaseDocB EXCEPT !.durationMinutes = 90, !.lat = 0, !.city = "Algeciras"],
   [BaseDocB EXCEPT !.address = "calle near", !.city = "Algeciras"]}

\* a confirmed booking 10:00-11:00 written as date + startTime + endTime
BookedV11b(day) ==
  [BaseDocB EXCEPT !.date = day, !.startTime = 600, !.endTime = 660]

BookingDocsV11b ==
  UNION {
    { BookedV11b(day),
      \* a pending visit 10:00-11:00 whose hour is in the field "time"
      [BookedV11b(day) EXCEPT !.status = "pending", !.startTime = Absent, !.time = 600],
      \* a cancelled and an archived one
      [BookedV11b(day) EXCEPT !.status = "cancelada"],
      [BookedV11b(day) EXCEPT !.status = "archived"],
      \* Timestamps only: 12:00, ninety minutes, no status
      [BaseDocB EXCEPT !.status = "", !.startAt = At(day, 12, 0), !.durationMinutes = 90],
      \* 09:00-10:00 ten kilometres away, put in the calendar by hand
      [BookedV11b(day) EXCEPT !.status = "pending", !.inCalendar = TRUE,
                              !.startTime = 540, !.endTime = 600, !.lat = 9,
                              !.city = "Tarifa"],
      \* 13:00, sixty minutes by default, at an address the geocoder resolves
      [BookedV11b(day) EXCEPT !.status = "scheduled", !.startTime = 780,
                              !.endTime = Absent, !.address = "calle far"]
    } : day \in FirstBookingDay..(FirstBookingDay + DaySpan - 1) }

RequestsV11b ==
  [token : 0..2, block : {""}, rangeDays : {2}, geo : {"ok"}]
  \cup [token : {1}, block : {"pm"}, rangeDays : {0}, geo : {"ok"}]
  \cup [token : {1}, block : {""}, rangeDays : {2}, geo : {"http", "throw"}]

InitV11b ==
  /\ tz \in TzChoices
  /\ now = At(FirstBookingDay, 8, 0)
  /\ apiKey \in BOOLEAN
  /\ \E t \in TokenDocsV11b :
       appointments = [i \in 1..MaxApptsB |-> IF i = 1 THEN t ELSE NoDoc]
  /\ calendarBlocks = <<>>
  /\ geocodeCache = {}
  /\ distanceCache = {}
  /\ resp = NoResp
  /\ InitSide

\* the agenda application books a visit
PutAppointmentV11b ==
  \E id \in 2..MaxApptsB, doc \in BookingDocsV11b :
    /\ ~appointments[id].exists
    /\ \A j \in 2..MaxApptsB : j < id => appointments[j].exists
    /\ appointments' = [appointments EXCEPT ![id] = doc]
    /\ resp' = NoResp
    /\ UNCHANGED <<sideState, tz, now, apiKey, calendarBlocks, geocodeCache, distanceCache>>

AnswerV11b(body, r) ==
  /\ resp' = [status |-> r.status, days |-> r.days, body |-> body]
  /\ geocodeCache' = geocodeCache \cup r.fetched
  /\ UNCHANGED <<sideState, tz, now, apiKey, appointments, calendarBlocks, distanceCache>>

AvailabilitySmartV11b ==
  \E body \in RequestsV11b : AnswerV11b(body, availabilitySmartV11b(body))

NextV11b ==
  \/ PutAppointmentV11b
  \/ Tick
  \/ AvailabilitySmartV11b

SpecV11b == InitV11b /\ [][NextV11b]_vars

(***************************************************************************)
(* Properties of buildAvailability (part_002).                             *)
(***************************************************************************)
\* the status names neither a cancellation nor an archive
LiveStatus(a) ==
  a.status \notin {"cancelled", "canceled", "cancelada", "archived", "archivada"}

\* C2: in every answer, the reserve window [t, t + durMin) of every returned
\* slot is disjoint from the interval of every stored booking that starts on
\* that day and whose status names neither a cancellation nor an archive,
\* whatever its fields and its status are.
C2_NoSlotOverlapsLiveBooking ==
  Answered200 =>
    \A k \in 1..Len(resp.days) : \A j \in 1..Len(resp.days[k].slots) :
      \A i \in BookingIds :
        (/\ LiveStatus(appointments[i])
         /\ parseAppointmentInterval(appointments[i], resp.days[k].date).ok
         /\ isoDate(parseAppointmentInterval(appointments[i], resp.days[k].date).start)
              = resp.days[k].date)
        => ~overlaps(SlotStart(resp.days[k], resp.days[k].slots[j]),
                     SlotStart(resp.days[k], resp.days[k].slots[j])
                       + pickDurationMinutes(appointments[resp.body.token]),
                     parseAppointmentInterval(appointments[i], resp.days[k].date).start,
                     parseAppointmentInterval(appointments[i], resp.days[k].date).end)

\* the bookings the loader does take into account: found by their date field
\* and blocking by isBlockingStatus
C2_HoldsForDatedBlockingBookings ==
  Answered200 =>
    \A k \in 1..Len(resp.days) : \A j \in 1..Len(resp.days[k].slots) :
      \A i \in BookingIds :
        (/\ isBlockingStatus(appointments[i])
         /\ appointments[i].date = resp.days[k].date
         /\ parseAppointmentInterval(appointments[i], resp.days[k].date).ok
         /\ isoDate(parseAppointmentInterval(appointments[i], resp.days[k].date).start)
              = resp.days[k].date)
        => ~overlaps(SlotStart(resp.days[k], resp.days[k].slots[j]),
                     SlotStart(resp.days[k], resp.days[k].slots[j])
                       + pickDurationMinutes(appointments[resp.body.token]),
                     parseAppointmentInterval(appointments[i], resp.days[k].date).start,
                     parseAppointmentInterval(appointments[i], resp.days[k].date).end)

\* C24: in every answer the days are in strictly increasing date order, no
\* date twice, and the slots of every day are in strictly increasing
\* startTime order, whatever the store holds.
C24_DaysAndSlotsAscend ==
  Answered200 =>
    /\ \A k \in 1..(Len(resp.days) - 1) : resp.days[k].date < resp.days[k + 1].date
    /\ \A k \in 1..Len(resp.days) : \A j \in 1..(Len(resp.days[k].slots) - 1) :
         resp.days[k].slots[j].startTime < resp.days[k].slots[j + 1].startTime

\* an answer of two days with several slots each, one day holding a live
\* booking in the client's city (its slots score 3) and the other none
C24_Witness ==
  /\ Answered200
  /\ Len(resp.days) >= 2
  /\ \A k \in 1..Len(resp.days) : Len(resp.days[k].slots) >= 2
  /\ \E i \in BookingIds :
       /\ isBlockingStatus(appointments[i])
       /\ appointments[i].date = resp.days[1].date
       /\ appointments[i].city = appointments[resp.body.token].city
  /\ \A i \in BookingIds : appointments[i].date # resp.days[2].date

\* the latitude of a document's location when the key is configured and the
\* geocoder answers: its coordinates, else those of its address, else Absent
KnownLatV11b(data) ==
  IF data.lat # Absent THEN data.lat
  ELSE IF data.address # "" THEN GeoService(<<data.address>>)
  ELSE Absent

\* the blocking bookings of the day that have a known location
LocatedOnDayV11b(date) ==
  {i \in BookingIds :
     /\ isBlockingStatus(appointments[i])
     /\ appointments[i].date = date
     /\ KnownLatV11b(appointments[i]) # Absent}

\* C26: with the geocoding key configured and the client located, a day that
\* is offered any slot holds no located booking further than MAX_HOP_KM from
\* the client's location, whether or not that booking is the one just before or just
\* after the slot.
C26_EveryBookingOfTheDayWithinHop ==
  (Answered200 /\ apiKey /\ resp.body.geo = "ok"
     /\ KnownLatV11b(appointments[resp.body.token]) # Absent)
    => \A k \in 1..Len(resp.days) : \A i \in LocatedOnDayV11b(resp.days[k].date) :
         resp.days[k].slots # <<>>
           => ~tooFarV11b(KnownLatV11b(appointments[i]),
                          KnownLatV11b(appointments[resp.body.token]))

\* what the neighbour test does guarantee: the day of a single located
\* booking that is too far is not offered
C26_SingleFarBookingExcludesItsDay ==
  (Answered200 /\ apiKey /\ resp.body.geo = "ok"
     /\ KnownLatV11b(appointments[resp.body.token]) # Absent)
    => \A k \in 1..Len(resp.days) : \A i \in LocatedOnDayV11b(resp.days[k].date) :
         (/\ resp.days[k].slots # <<>>
          /\ \A j \in BookingIds :
               (isBlockingStatus(appointments[j]) /\ appointments[j].date = resp.days[k].date)
                 => j = i)
           => ~tooFarV11b(KnownLatV11b(appointments[i]),
                          KnownLatV11b(appointments[resp.body.token]))

(***************************************************************************)
(* V15 and V18, src/unnamed/part_005 and part_004.  The two handlers run   *)
(* the same steps; V18's getDistanceInKm also answers 0 for a missing      *)
(* coordinate, which its caller never passes.                              *)
(*                                                                         *)
(* An "appointments" document of these iterations:                         *)
(*   date      a Timestamp, or Absent                                      *)
(*   duration  minutes, 0 when the field is missing                        *)
(*   lat       location.lat (location.lng is then set too), or Absent      *)
(* Latitudes are counted from a reference parallel, so a known latitude    *)
(* is never the falsy 0 of JavaScript.                                     *)
(***************************************************************************)
MAX_DISTANCE_KM == 5
daysToCheckV15 == 10

SCHEDULE_V15(block) ==
  IF block = "afternoon" THEN [startHour |-> 16, endHour |-> 20]
  ELSE [startHour |-> 9, endHour |-> 14]

isOverlapping(startA, endA, startB, endB) == startA < endB /\ startB < endA

\* getDistanceInKm(...) > MAX_DISTANCE_KM
getDistanceInKmExceeds(latA, latB) == haversineMetres(latA, latB) > MAX_DISTANCE_KM * 1000
\* V18: if (!lat1 || !lon1 || !lat2 || !lon2) return 0
getDistanceInKmExceedsV18(latA, latB) ==
  IF latA = Absent \/ latB = Absent THEN FALSE ELSE getDistanceInKmExceeds(latA, latB)

\* Date.toISOString().split("T")[0]: the UTC day of a Date.  Europe/Madrid is
\* two hours ahead of UTC in the summer the model plays in.
toISODay(d) == DayOf(d - (2 * 60 - tz))

\* startRange: today with setHours(0,0,0,0)
startRangeV15 == DayOf(getSpainNow) * MinutesPerDay

\* the snapshot of where("date", ">=", startRange).where("date", "<=", endRange),
\* mapped to {start, end, lat}
existingAppsV15 ==
  {[start |-> toDate(appointments[i].date),
    end |-> toDate(appointments[i].date)
            + (IF appointments[i].duration # 0 THEN appointments[i].duration ELSE 60),
    lat |-> appointments[i].lat] :
   i \in {j \in ExistingIds :
            /\ appointments[j].date # Absent
            /\ toDate(appointments[j].date) >= startRangeV15
            /\ toDate(appointments[j].date)
                 <= startRangeV15 + daysToCheckV15 * MinutesPerDay}}

\* app.start.getDate() === currentDay.getDate() && the same month
dayAppsV15(existingApps, currentDay) ==
  {a \in existingApps : DayOf(a.start) = DayOf(currentDay)}

dayIsBlockedByDistance(hasCoords, lat, dayApps, guarded) ==
  /\ hasCoords
  /\ \E b \in dayApps :
       /\ b.lat # Absent
       /\ IF guarded THEN getDistanceInKmExceedsV18(lat, b.lat)
          ELSE getDistanceInKmExceeds(lat, b.lat)

blocksToUse(requestedTime) ==
  IF requestedTime \in {"mañana", "morning"} THEN <<"morning">>
  ELSE IF requestedTime \in {"tarde", "afternoon"} THEN <<"afternoon">>
  ELSE <<"morning", "afternoon">>

hoursOfBlock(block) ==
  [k \in 1..(SCHEDULE_V15(block).endHour - SCHEDULE_V15(block).startHour) |->
     SCHEDULE_V15(block).startHour + k - 1]

RECURSIVE hoursOfBlocks(_)
hoursOfBlocks(blocks) ==
  IF blocks = <<>> THEN <<>>
  ELSE hoursOfBlock(Head(blocks)) \o hoursOfBlocks(Tail(blocks))

\* one turn of the hour loop: is the slot pushed?
slotPushedV15(slotStart, durationMinutes, dayApps) ==
  IF slotStart < newDate THEN FALSE
  ELSE ~\E b \in dayApps :
          isOverlapping(slotStart, slotStart + durationMinutes, b.start, b.end)

slotsOfHoursV15(currentDay, hours, durationMinutes, dayApps) ==
  LET pushed == SelectSeq(hours, LAMBDA h :
                  slotPushedV15(setTime(currentDay, h, 0), durationMinutes, dayApps))
  IN  [k \in 1..Len(pushed) |->
         [date |-> toISODay(setTime(currentDay, pushed[k], 0)),
          startTime |-> formatTime(setTime(currentDay, pushed[k], 0)),
          endTime |-> formatTime(setTime(currentDay, pushed[k] + 1, 0))]]

dayWithAppsV15(currentDay, b, dayApps, guarded) ==
  IF dayIsBlockedByDistance(b.lat # Absent, b.lat, dayApps, guarded) THEN <<>>
  ELSE slotsOfHoursV15(currentDay, hoursOfBlocks(blocksToUse(b.timePreference)),
                       IF b.durationMinutes = 0 THEN 60 ELSE b.durationMinutes,
                       dayApps)

\* one turn of the day loop: the slots it pushes to availableSlots
dayV15(currentDay, b, existingApps, guarded) ==
  IF getDay(currentDay) = 0 \/ getDay(currentDay) = 6 THEN <<>>
  ELSE dayWithAppsV15(currentDay, b, dayAppsV15(existingApps, currentDay), guarded)

RECURSIVE availableSlotsV15(_, _, _, _)
availableSlotsV15(i, b, existingApps, guarded) ==
  IF i >= daysToCheckV15 THEN <<>>
  ELSE dayV15(addDays(getSpainNow, i), b, existingApps, guarded)
       \o availableSlotsV15(i + 1, b, existingApps, guarded)

\* the reduce into grouped and Object.keys(grouped).map: the days in the
\* order their first slot was pushed, each with its slots in push order
RECURSIVE groupedV15(_)
groupedV15(slots) ==
  IF slots = <<>> THEN <<>>
  ELSE <<[date |-> Head(slots).date,
          slots |-> SelectSeq(slots, LAMBDA x : x.date = Head(slots).date)]>>
       \o groupedV15(SelectSeq(slots, LAMBDA x : x.date # Head(slots).date))

\* app.post("/availability-smart"); b = [lat, durationMinutes, timePreference,
\* qfail]; durationMinutes 0 and lat Absent are fields the body does not carry;
\* qfail: the query rejects, which the catch answers with no day at all
handlerV15(b, guarded) ==
  IF b.qfail THEN [status |-> 200, days |-> <<>>]
  ELSE [status |-> 200,
        days |-> groupedV15(availableSlotsV15(0, b, existingAppsV15, guarded))]

availabilitySmartV15(b) == handlerV15(b, FALSE)
availabilitySmartV18(b) == handlerV15(b, TRUE)

(***************************************************************************)
(* The bounded world of SpecV15.                                           *)
(***************************************************************************)
MaxApptsC == 2

DocV15(date, duration, lat) ==
  [exists |-> TRUE, date |-> date, duration |-> duration, lat |-> lat]

BookingDocsV15 ==
  {DocV15(At(FirstBookingDay, 10, 0), 0, Absent),
   DocV15(At(FirstBookingDay, 12, 0), 90, 9),
   DocV15(At(FirstBookingDay + 1, 17, 0), 120, 1),
   DocV15(Absent, 0, Absent)}

RequestsV15 ==
  [lat : {Absent, 0}, durationMinutes : {0, 90}, timePreference : {""}, qfail : {FALSE}]
  \cup [lat : {0}, durationMinutes : {90}, timePreference : {"morning"}, qfail : {FALSE}]
  \cup [lat : {0}, durationMinutes : {120}, timePreference : {"tarde"}, qfail : BOOLEAN]

InitV15 ==
  /\ tz \in TzChoices
  /\ now = At(FirstBookingDay, 8, 0)
  /\ apiKey = FALSE
  /\ appointments = [i \in 1..MaxApptsC |-> NoDoc]
  /\ calendarBlocks = <<>>
  /\ geocodeCache = {}
  /\ distanceCache = {}
  /\ resp = NoResp
  /\ InitSide

\* the agenda application books a visit
PutAppointmentV15 ==
  \E id \in 1..MaxApptsC, doc \in BookingDocsV15 :
    /\ ~appointments[id].exists
    /\ \A j \in 1..MaxApptsC : j < id => appointments[j].exists
    /\ appointments' = [appointments EXCEPT ![id] = doc]
    /\ resp' = NoResp
    /\ UNCHANGED <<sideState, tz, now, apiKey, calendarBlocks, geocodeCache, distanceCache>>

\* app.post("/appointment-request"): the client books the first slot of the
\* last answer; isoStart is the instant of the slot's Date, stored as a Timestamp
AppointmentRequestV15 ==
  \E id \in 1..MaxApptsC :
    /\ ~appointments[id].exists
    /\ \A j \in 1..MaxApptsC : j < id => appointments[j].exists
    /\ resp.status = 200
    /\ resp.days # <<>>
    /\ appointments' =
         [appointments EXCEPT ![id] =
            DocV15(toSpainDate(SlotStart(resp.days[1], resp.days[1].slots[1])),
                   IF resp.body.durationMinutes = 0 THEN 60
                   ELSE resp.body.durationMinutes,
                   resp.body.lat)]
    /\ resp' = NoResp
    /\ UNCHANGED <<sideState, tz, now, apiKey, calendarBlocks, geocodeCache, distanceCache>>

AnswerV15(b, r, version) ==
  /\ resp' = [status |-> r.status, days |-> r.days, body |-> b, version |-> version]
  /\ UNCHANGED <<sideState, tz, now, apiKey, appointments, calendarBlocks, geocodeCache, distanceCache>>

AvailabilitySmartV15 ==
  \E b \in RequestsV15 : AnswerV15(b, availabilitySmartV15(b), "V15")

AvailabilitySmartV18 ==
  \E b \in RequestsV15 : AnswerV15(b, availabilitySmartV18(b), "V18")

NextV15 ==
  \/ PutAppointmentV15
  \/ AppointmentRequestV15
  \/ Tick
  \/ AvailabilitySmartV15
  \/ AvailabilitySmartV18

SpecV15 == InitV15 /\ [][NextV15]_vars

(***************************************************************************)
(* Properties of V15 / V18.                                                *)
(***************************************************************************)
RequestedDuration == IF resp.body.durationMinutes = 0 THEN 60 ELSE resp.body.durationMinutes

\* the slot starts at a whole hour of the block and the visit ends by blockEnd
FitsBlock(startTime, duration, startHour, endHour) ==
  /\ startTime \in {h * 60 : h \in startHour..(endHour - 1)}
  /\ startTime + duration <= endHour * 60

\* C3: every returned slot starts at a whole hour of its block (09..13 in the
\* morning, 16..19 in the afternoon) and slotStart + durationMinutes is no
\* later than the end of that block (14:00, 20:00).
C3_SlotFitsItsBlock ==
  Answered200 =>
    \A k \in 1..Len(resp.days) : \A j \in 1..Len(resp.days[k].slots) :
      \/ FitsBlock(resp.days[k].slots[j].startTime, RequestedDuration, 9, 14)
      \/ FitsBlock(resp.days[k].slots[j].startTime, RequestedDuration, 16, 20)

\* the half of C3 the handlers do keep: the start is a whole hour of a block
C3_SlotStartsAtHourOfBlock ==
  Answered200 =>
    \A k \in 1..Len(resp.days) : \A j \in 1..Len(resp.days[k].slots) :
      resp.days[k].slots[j].startTime \in {h * 60 : h \in (9..13) \cup (16..19)}

(***************************************************************************)
(* V5, src/unnamed/part_000.                                               *)
(*                                                                         *)
(* An "appointments" document of this iteration:                           *)
(*   date      a Timestamp, or Absent                                      *)
(*   duration  a number, 0 when the field is missing                       *)
(*   address, city   strings ("" when missing)                             *)
(* A "calendarBlocks" document: start, end (Timestamps), allDay, city and  *)
(* dayKeys, the set of day keys the block was filed under.                 *)
(***************************************************************************)
SLOT_INTERVAL == 30
SERVICE_DEFAULT_MIN == 60
TRAVEL_MARGIN_MINUTES == 15
MAX_TRAVEL_ALLOWED_BETWEEN_JOBS == 30

SCHEDULE_V5(block) ==
  IF block = "afternoon"
    THEN [startHour |-> 17, startMinute |-> 0, endHour |-> 20, endMinute |-> 0]
    ELSE [startHour |-> 9, startMinute |-> 30, endHour |-> 14, endMinute |-> 0]

spainDayStart(d) == DayOf(toSpainDate(d)) * MinutesPerDay
toDayKeyES(d) == DayOf(toSpainDate(d))
overlapsMath(startA, endA, startB, endB) == startA < endB /\ endA > startB

\* "tard" or "after" in the lower-cased block
normalizeBlockV5(b) ==
  IF b \in {"afternoon", "tarde"} THEN "afternoon" ELSE "morning"

\* a number: seconds when above 1000, else minutes; 60 when missing
parseDurationMinutesV5(v) ==
  IF v = 0 THEN SERVICE_DEFAULT_MIN
  ELSE IF v > 1000 THEN (v + 30) \div 60
  ELSE v

\* the Distance Matrix service: minutes of driving between two parallels
TravelService(latA, latB) == 4 * AbsDiff(latA, latB)

\* geocodeAddress of V5: [lat, fetched]; HOME_ALGECIRAS when there is no key,
\* no result, or the request fails (net = "fail")
geocodeAddressV5(full, net) ==
  IF full \in geocodeCache THEN [lat |-> GeoService(full), fetched |-> {}]
  ELSE IF ~apiKey THEN [lat |-> HOME_ALGECIRAS, fetched |-> {}]
  ELSE IF net = "fail" THEN [lat |-> HOME_ALGECIRAS, fetched |-> {}]
  ELSE IF GeoService(full) = Absent THEN [lat |-> HOME_ALGECIRAS, fetched |-> {}]
  ELSE [lat |-> GeoService(full), fetched |-> {full}]

\* a distanceCache whose hits answer the 20-minute estimate
getTravelTimeMinutesStaleHit(origin, destination, net) ==
  IF origin = destination THEN [min |-> 0, fetched |-> {}]
  ELSE IF <<origin, destination>> \in distanceCache THEN [min |-> 20, fetched |-> {}]
  ELSE IF ~apiKey THEN [min |-> 20, fetched |-> {}]
  ELSE IF net = "fail" THEN [min |-> 20, fetched |-> {}]
  ELSE [min |-> TravelService(origin, destination),
        fetched |-> {<<origin, destination>>}]

\* getTravelTimeMinutes: [min, fetched]
getTravelTimeMinutes(origin, destination, net) ==
  IF origin = destination THEN [min |-> 0, fetched |-> {}]
  ELSE IF <<origin, destination>> \in distanceCache
    THEN [min |-> TravelService(origin, destination), fetched |-> {}]
  ELSE IF ~apiKey THEN [min |-> 20, fetched |-> {}]
  ELSE IF net = "fail" THEN [min |-> 20, fetched |-> {}]
  ELSE [min |-> TravelService(origin, destination),
        fetched |-> {<<origin, destination>>}]

\* the grid of a block: current = start, start + 30, ... while current < limit
generateSlotsForDayAndBlock(dayBaseES, rawBlock) ==
  LET config == SCHEDULE_V5(normalizeBlockV5(rawBlock))
      first == setTime(dayBaseES, config.startHour, config.startMinute)
      limit == setTime(dayBaseES, config.endHour, config.endMinute)
  IN  [k \in 1..((limit - first + SLOT_INTERVAL - 1) \div SLOT_INTERVAL) |->
         addMinutes(first, SLOT_INTERVAL * (k - 1))]

\* the keys of the days from startDate's to endDate's
buildDayKeysBetween(startDate, endDate) ==
  {toDayKeyES(day * MinutesPerDay) : day \in DayOf(startDate)..DayOf(endDate)}

BlockIds == {i \in DOMAIN calendarBlocks : calendarBlocks[i].exists}

\* the blocks filed under dayKey that are global or of the client's city
getBlocksForDay(dayKey, clientCity) ==
  {[start |-> toSpainDate(toDate(calendarBlocks[i].start)),
    end |-> toSpainDate(toDate(calendarBlocks[i].end)),
    allDay |-> calendarBlocks[i].allDay,
    city |-> toLowerCase(calendarBlocks[i].city)] :
   i \in {j \in BlockIds :
            /\ dayKey \in calendarBlocks[j].dayKeys
            /\ \/ calendarBlocks[j].city = ""
               \/ toLowerCase(calendarBlocks[j].city) = toLowerCase(clientCity)}}

\* a route loop that lets any hop between two jobs through
routeTurnNoCap(travel, first, currTime, appt, rest) ==
  IF addMinutes(currTime, travel.min + TRAVEL_MARGIN_MINUTES) > appt.start
    THEN [ok |-> FALSE, fetched |-> travel.fetched]
  ELSE [ok |-> rest.ok, fetched |-> travel.fetched \cup rest.fetched]

\* one turn of the route loop of isSlotFeasible; rest is the walk from the
\* next stop on
routeTurn(travel, first, currTime, appt, rest) ==
  IF ~first /\ travel.min > MAX_TRAVEL_ALLOWED_BETWEEN_JOBS
    THEN [ok |-> FALSE, fetched |-> travel.fetched]
  ELSE IF addMinutes(currTime, travel.min + TRAVEL_MARGIN_MINUTES) > appt.start
    THEN [ok |-> FALSE, fetched |-> travel.fetched]
  ELSE [ok |-> rest.ok, fetched |-> travel.fetched \cup rest.fetched]

RECURSIVE routeWalk(_, _, _, _, _)
routeWalk(route, i, currLoc, currTime, net) ==
  IF i > Len(route) THEN [ok |-> TRUE, fetched |-> {}]
  ELSE routeTurn(getTravelTimeMinutes(currLoc, route[i].location, net), i = 1,
                 currTime, route[i],
                 routeWalk(route, i + 1, route[i].location, route[i].end, net))

routeOf(existingAppointments, newAppt) == sortByStart(existingAppointments \o <<newAppt>>)

routeChecked(route, dayBase, net) ==
  IF \E i \in 1..(Len(route) - 1) : route[i].end > route[i + 1].start
    THEN [ok |-> FALSE, fetched |-> {}]
  ELSE routeWalk(route, 1, HOME_ALGECIRAS, setTime(dayBase, 8, 0), net)

isSlotFeasible(slotStart, newLocation, newDuration, rawBlock, existingAppointments, net) ==
  IF addMinutes(slotStart, newDuration)
       > setTime(spainDayStart(slotStart),
                 SCHEDULE_V5(normalizeBlockV5(rawBlock)).endHour,
                 SCHEDULE_V5(normalizeBlockV5(rawBlock)).endMinute)
    THEN [ok |-> FALSE, fetched |-> {}]
  ELSE routeChecked(routeOf(existingAppointments,
                            [start |-> slotStart,
                             end |-> addMinutes(slotStart, newDuration),
                             location |-> newLocation, fetched |-> {}]),
                    spainDayStart(slotStart), net)

\* the documents of where("date", ">=", s).where("date", "<", e), by date
RECURSIVE sortByDate(_)
sortByDate(ids) ==
  IF ids = {} THEN <<>>
  ELSE LET lo == CHOOSE i \in ids : \A j \in ids :
                   \/ appointments[i].date < appointments[j].date
                   \/ appointments[i].date = appointments[j].date /\ i <= j
       IN  <<lo>> \o sortByDate(ids \ {lo})

apptOfDayV5(d, normBlock, loc) ==
  IF normBlock = "morning" /\ getHours(toSpainDate(toDate(d.date))) >= 15 THEN <<>>
  ELSE IF normBlock = "afternoon" /\ getHours(toSpainDate(toDate(d.date))) < 15 THEN <<>>
  ELSE <<[start |-> toSpainDate(toDate(d.date)),
          end |-> addMinutes(toSpainDate(toDate(d.date)), parseDurationMinutesV5(d.duration)),
          location |-> loc.lat, fetched |-> loc.fetched]>>

RECURSIVE apptsOfDayV5(_, _, _)
apptsOfDayV5(docs, normBlock, net) ==
  IF docs = <<>> THEN <<>>
  ELSE apptOfDayV5(appointments[Head(docs)], normBlock,
                   IF appointments[Head(docs)].address # ""
                     THEN geocodeAddressV5(fullAddress(appointments[Head(docs)].address,
                                                       appointments[Head(docs)].city), net)
                     ELSE [lat |-> HOME_ALGECIRAS, fetched |-> {}])
       \o apptsOfDayV5(Tail(docs), normBlock, net)

getAppointmentsForDay(dayBaseES, block, net) ==
  apptsOfDayV5(
    sortByDate({i \in ExistingIds :
                  /\ appointments[i].date # Absent
                  /\ toDate(appointments[i].date) >= spainDayStart(dayBaseES)
                  /\ toDate(appointments[i].date) < addDays(spainDayStart(dayBaseES), 1)}),
    normalizeBlockV5(block), net)

isBlockedV5(sStart, sEnd, blocks) ==
  \E b \in blocks :
    overlapsMath(getMinutesFromMidnight(sStart), getMinutesFromMidnight(sEnd),
                 getMinutesFromMidnight(b.start), getMinutesFromMidnight(b.end))

\* one turn of the slot loop: [valid, fetched]
slotV5(sStart, nowES, duration, blocks, clientLat, block, existing, net) ==
  IF sStart < nowES THEN [ok |-> FALSE, fetched |-> {}]
  ELSE IF isBlockedV5(sStart, addMinutes(sStart, duration), blocks)
    THEN [ok |-> FALSE, fetched |-> {}]
  ELSE isSlotFeasible(sStart, clientLat, duration, block, existing, net)

SkipDayV5 == [skip |-> TRUE, date |-> Absent, slots |-> <<>>, fetched |-> {}, paired |-> {}]

dayValidV5(dayKey, slots, v, duration, existing) ==
  LET valid == SelectSeq(slots, LAMBDA c : \E k \in 1..Len(slots) : slots[k] = c /\ v[k].ok)
  IN  [skip |-> valid = <<>>,
       date |-> dayKey,
       slots |-> [k \in 1..Len(valid) |->
                    [startTime |-> formatTime(valid[k]),
                     endTime |-> formatTime(addMinutes(valid[k], duration))]],
       fetched |-> UNION {existing[k].fetched : k \in 1..Len(existing)},
       paired |-> UNION {v[k].fetched : k \in 1..Len(slots)}]

dayWithExistingV5(dayBase, slots, nowES, duration, blocks, clientLat, block, existing, net) ==
  dayValidV5(toDayKeyES(dayBase), slots,
             [k \in 1..Len(slots) |->
                slotV5(slots[k], nowES, duration, blocks, clientLat, block, existing, net)],
             duration, existing)

dayWithBlocksV5(dayBase, nowES, duration, blocks, clientLat, block, net) ==
  IF \E b \in blocks : b.allDay THEN SkipDayV5
  ELSE dayWithExistingV5(dayBase, generateSlotsForDayAndBlock(dayBase, block), nowES,
                         duration, blocks, clientLat, block,
                         getAppointmentsForDay(dayBase, block, net), net)

\* one turn of the day loop
dayV5(dayBase, nowES, duration, serviceCity, clientLat, block, net) ==
  IF isWeekendES(dayBase) THEN SkipDayV5
  ELSE dayWithBlocksV5(dayBase, nowES, duration,
                       getBlocksForDay(toDayKeyES(dayBase), serviceCity),
                       clientLat, block, net)

daysJoinV5(d, rest) ==
  [days |-> (IF d.skip THEN <<>> ELSE <<[date |-> d.date, slots |-> d.slots]>>)
            \o rest.days,
   fetched |-> d.fetched \cup rest.fetched,
   paired |-> d.paired \cup rest.paired]

RECURSIVE resultDaysV5(_, _, _, _, _, _, _, _)
resultDaysV5(i, rangeDays, nowES, duration, serviceCity, clientLat, block, net) ==
  IF i >= rangeDays THEN [days |-> <<>>, fetched |-> {}, paired |-> {}]
  ELSE daysJoinV5(dayV5(spainDayStart(addDays(nowES, i)), nowES, duration, serviceCity,
                        clientLat, block, net),
                  resultDaysV5(i + 1, rangeDays, nowES, duration, serviceCity,
                               clientLat, block, net))

answerV5(clientLoc, out) ==
  [status |-> 200, days |-> out.days,
   fetched |-> clientLoc.fetched \cup out.fetched, paired |-> out.paired]

\* app.post("/availability-smart") of V5; body = [token, block, rangeDays, net];
\* token 0 is a missing token, for which doc(token) throws
availabilitySmartV5(body) ==
  IF body.token = 0 THEN [status |-> 500, days |-> <<>>, fetched |-> {}, paired |-> {}]
  ELSE IF ~appointments[body.token].exists
    THEN [status |-> 404, days |-> <<>>, fetched |-> {}, paired |-> {}]
  ELSE answerV5(geocodeAddressV5(<<appointments[body.token].address,
                                   appointments[body.token].city>>, body.net),
                resultDaysV5(0, IF body.rangeDays = 0 THEN 14 ELSE body.rangeDays,
                             getSpainNow,
                             parseDurationMinutesV5(
                               parseDurationMinutesV5(appointments[body.token].duration)),
                             appointments[body.token].city,
                             geocodeAddressV5(<<appointments[body.token].address,
                                                appointments[body.token].city>>,
                                              body.net).lat,
                             body.block, body.net))

\* app.post("/admin/blocks") of V5: the document it adds.  startISO and endISO
\* are instants, given as Spanish wall-clock minutes.
newBlockV5(s, e, allDay, city) ==
  [exists |-> TRUE,
   start |-> toSpainDate(IF allDay THEN setTime(s, 0, 0) ELSE s),
   end |-> toSpainDate(IF allDay THEN setTime(e, 23, 59) ELSE e),
   allDay |-> allDay, city |-> city,
   dayKeys |-> buildDayKeysBetween(IF allDay THEN setTime(s, 0, 0) ELSE s,
                                   IF allDay THEN setTime(e, 23, 59) ELSE e)]

(***************************************************************************)
(* The bounded world of SpecV5.                                            *)
(***************************************************************************)
MaxApptsD == 2
MaxBlocks == 2

DocV5(date, duration, address, city) ==
  [exists |-> TRUE, date |-> date, duration |-> duration,
   address |-> address, city |-> city]

\* the client's own document; its duration is written in seconds
TokenDocsV5 == {DocV5(Absent, 5400, "calle near", "Algeciras")}

BookingDocsV5 ==
  {DocV5(At(FirstBookingDay, 11, 0), 0, "", ""),
   DocV5(At(FirstBookingDay, 12, 30), 90, "calle far", "Tarifa"),
   DocV5(At(FirstBookingDay + 1, 17, 0), 60, "calle near", "Algeciras")}

\* the bodies of POST /admin/blocks the administrator sends
BlockBodiesV5 ==
  {[startISO |-> At(FirstBookingDay, 10, 0), endISO |-> At(FirstBookingDay, 12, 0),
    allDay |-> FALSE, city |-> ""],
   [startISO |-> At(FirstBookingDay, 12, 0), endISO |-> At(FirstBookingDay + 1, 11, 0),
    allDay |-> FALSE, city |-> "ALGECIRAS"],
   [startISO |-> At(FirstBookingDay + 1, 9, 0), endISO |-> At(FirstBookingDay + 1, 9, 0),
    allDay |-> TRUE, city |-> "Tarifa"]}

RequestsV5 ==
  [token : 0..MaxApptsD, block : {""}, rangeDays : {2}, net : {"ok"}]
  \cup [token : {1}, block : {"tarde"}, rangeDays : {0}, net : {"ok"}]
  \cup [token : {1}, block : {""}, rangeDays : {2}, net : {"fail"}]

InitV5 ==
  /\ tz \in TzChoices
  /\ now = At(FirstBookingDay, 8, 0)
  /\ apiKey \in BOOLEAN
  /\ \E t \in TokenDocsV5 :
       appointments = [i \in 1..MaxApptsD |-> IF i = 1 THEN t ELSE NoDoc]
  /\ calendarBlocks = [i \in 1..MaxBlocks |-> NoDoc]
  /\ geocodeCache = {}
  /\ distanceCache = {}
  /\ resp = NoResp
  /\ InitSide

\* the agenda application books a visit
PutAppointmentV5 ==
  \E id \in 2..MaxApptsD, doc \in BookingDocsV5 :
    /\ ~appointments[id].exists
    /\ appointments' = [appointments EXCEPT ![id] = doc]
    /\ resp' = NoResp
    /\ UNCHANGED <<sideState, tz, now, apiKey, calendarBlocks, geocodeCache, distanceCache>>

\* app.post("/admin/blocks") behind requireAdmin
PostAdminBlocksV5 ==
  \E b \in BlockBodiesV5, authed \in BOOLEAN :
    IF ~authed
      THEN /\ resp' = [status |-> 401]
           /\ UNCHANGED <<sideState, tz, now, apiKey, appointments, calendarBlocks,
                          geocodeCache, distanceCache>>
      ELSE \E id \in 1..MaxBlocks :
             /\ ~calendarBlocks[id].exists
             /\ \A j \in 1..MaxBlocks : j < id => calendarBlocks[j].exists
             /\ calendarBlocks' =
                  [calendarBlocks EXCEPT ![id] =
                     newBlockV5(b.startISO, b.endISO, b.allDay, b.city)]
             /\ resp' = NoResp
             /\ UNCHANGED <<sideState, tz, now, apiKey, appointments, geocodeCache, distanceCache>>

\* app.delete("/admin/blocks/:id") behind requireAdmin
DeleteAdminBlocksV5 ==
  \E id \in 1..MaxBlocks :
    /\ calendarBlocks[id].exists
    /\ calendarBlocks' = [calendarBlocks EXCEPT ![id] = NoDoc]
    /\ resp' = NoResp
    /\ UNCHANGED <<sideState, tz, now, apiKey, appointments, geocodeCache, distanceCache>>

\* again: the request before this one had the same body and nothing happened
\* in between
AnswerV5(body, r) ==
  /\ resp' = [status |-> r.status, days |-> r.days, body |-> body,
              again |-> resp.status \in {200, 404, 500} /\ resp.body = body]
  /\ geocodeCache' = geocodeCache \cup r.fetched
  /\ distanceCache' = distanceCache \cup r.paired
  /\ UNCHANGED <<sideState, tz, now, apiKey, appointments, calendarBlocks>>

AvailabilitySmartV5 ==
  \E body \in RequestsV5 : AnswerV5(body, availabilitySmartV5(body))

NextV5 ==
  \/ PutAppointmentV5
  \/ PostAdminBlocksV5
  \/ DeleteAdminBlocksV5
  \/ Tick
  \/ AvailabilitySmartV5

SpecV5 == InitV5 /\ [][NextV5]_vars

(***************************************************************************)
(* Properties of V5.                                                       *)
(***************************************************************************)
\* the window of a stored block, as the handler reads it
BlockStart(i) == calendarBlocks[i].start
BlockEnd(i) == calendarBlocks[i].end
\* the block is filed under the day and is global or of the client's city
BlockApplies(i, day) ==
  /\ day \in calendarBlocks[i].dayKeys
  /\ \/ calendarBlocks[i].city = ""
     \/ toLowerCase(calendarBlocks[i].city)
          = toLowerCase(appointments[resp.body.token].city)
ServiceDurationV5 ==
  parseDurationMinutesV5(parseDurationMinutesV5(appointments[resp.body.token].duration))

\* C5: in every answer, the window [sStart, sStart + duration) of every
\* returned slot is disjoint from the [start, end) window of every stored
\* block that applies to the slot's day and the client's city, the blocks
\* that are not allDay and span several days included.
C5_NoSlotOverlapsApplicableBlock ==
  Answered200 =>
    \A k \in 1..Len(resp.days) : \A j \in 1..Len(resp.days[k].slots) :
      \A i \in BlockIds :
        BlockApplies(i, resp.days[k].date)
        => ~overlaps(SlotStart(resp.days[k], resp.days[k].slots[j]),
                     SlotStart(resp.days[k], resp.days[k].slots[j]) + ServiceDurationV5,
                     BlockStart(i), BlockEnd(i))

\* the blocks for which the comparison by minute of the day is sound: those
\* that start and end on the slot's day
C5_HoldsForBlocksWithinOneDay ==
  Answered200 =>
    \A k \in 1..Len(resp.days) : \A j \in 1..Len(resp.days[k].slots) :
      \A i \in BlockIds :
        (/\ BlockApplies(i, resp.days[k].date)
         /\ DayOf(BlockStart(i)) = resp.days[k].date
         /\ DayOf(BlockEnd(i)) = resp.days[k].date)
        => ~overlaps(SlotStart(resp.days[k], resp.days[k].slots[j]),
                     SlotStart(resp.days[k], resp.days[k].slots[j]) + ServiceDurationV5,
                     BlockStart(i), BlockEnd(i))

\* C13: a call of availability-smart that follows a call with the same body,
\* with no change of the store or of the clock in between and the external
\* service answering alike, returns the same status and the same days,
\* whatever the first call left in geocodeCache and distanceCache.
C13_RepeatedCallSameOutput ==
  [][(/\ resp.status \in {200, 404, 500}
      /\ resp'.status \in {200, 404, 500}
      /\ resp'.body = resp.body)
     => (resp'.status = resp.status /\ resp'.days = resp.days)]_vars

\* a second call that found in the caches what the first one had fetched
C13_Witness ==
  /\ Answered200
  /\ resp.again
  /\ resp.body.net = "ok"
  /\ apiKey
  /\ resp.days # <<>>
  /\ distanceCache # {}
  /\ geocodeCache # {}

(***************************************************************************)
(* V22, src/unnamed/part_003.                                              *)
(*                                                                         *)
(* An "appointments" document of this iteration:                           *)
(*   date      a Timestamp, or Absent                                      *)
(*   duration  minutes, or Absent when the field is not a number           *)
(*   lat       location.lat (location.lng is then set too), or Absent      *)
(* A "calendarBlocks" document keeps startISO and endISO as they came:     *)
(*   start, end   ISO strings of instants, kept as the Spanish wall-clock  *)
(*                minute of the instant; new Date(string) reads them as    *)
(*                toDate reads a Timestamp                                 *)
(*   allDay       a boolean;  city  a string                               *)
(***************************************************************************)
MAX_DISTANCE_KM_V22 == 5

SCHEDULE_V22(block) ==
  IF block = "afternoon" THEN [startHour |-> 16, endHour |-> 20]
  ELSE [startHour |-> 9, endHour |-> 14]

isOverlappingV22(startA, endA, startB, endB) == startA < endB /\ startB < endA

\* getDistanceInKm(lat1, lon1, lat2, lon2) > MAX_DISTANCE_KM; the function
\* answers 0 when a coordinate is null
getDistanceInKmV22Exceeds(latA, latB) ==
  IF latA = Absent \/ latB = Absent THEN FALSE
  ELSE haversineMetres(latA, latB) > MAX_DISTANCE_KM_V22 * 1000

\* verifyFirebaseUser: the status it answers with, 0 when it calls next()
verifyFirebaseUserV22(auth) ==
  CASE auth = "missing" -> 401
    [] auth = "invalid" -> 403
    [] OTHER -> 0

\* app.post("/admin/blocks"): the document it adds
newBlockV22(startISO, endISO, allDay, city) ==
  [exists |-> TRUE, start |-> startISO, end |-> endISO, allDay |-> allDay, city |-> city]

\* if (token && (!lat || !lng)) ...: lat and durationMinutes after the lookup
\* of the token's document; b.token 0 and b.durationMinutes 0 are fields the
\* body does not carry
tokenCompatV22(b, t) ==
  [lat |-> IF t.exists /\ t.lat # Absent THEN t.lat ELSE b.lat,
   durationMinutes |->
     IF t.exists /\ t.duration # Absent THEN t.duration
     ELSE IF b.durationMinutes = 0 THEN 60 ELSE b.durationMinutes]

targetV22(b) ==
  IF b.token # 0 /\ b.lat = Absent THEN tokenCompatV22(b, appointments[b.token])
  ELSE [lat |-> b.lat,
        durationMinutes |-> IF b.durationMinutes = 0 THEN 60 ELSE b.durationMinutes]

\* Math.min(Math.max(parseInt(rangeDays, 10) || 10, 3), 21)
daysToCheckV22(rangeDays) == Min2(Max2(IF rangeDays = 0 THEN 10 ELSE rangeDays, 3), 21)

\* startRange: today with setHours(0, 0, 0, 0)
startRangeV22 == DayOf(getSpainNow) * MinutesPerDay

\* appSnap.docs.forEach: the appointments of the range query, as busy items
busyAppointmentsV22(startRange, endRange) ==
  {[start |-> toDate(appointments[i].date),
    end |-> toDate(appointments[i].date)
            + (IF appointments[i].duration # Absent THEN appointments[i].duration ELSE 60),
    lat |-> appointments[i].lat, type |-> "appointment", allDay |-> FALSE] :
   i \in {j \in ExistingIds :
            /\ appointments[j].date # Absent
            /\ toDate(appointments[j].date) >= startRange
            /\ toDate(appointments[j].date) <= endRange}}

\* blockSnap.docs.forEach: every stored block, as a busy item
busyBlocksV22 ==
  {[start |-> toDate(calendarBlocks[i].start), end |-> toDate(calendarBlocks[i].end),
    lat |-> Absent, type |-> "block", allDay |-> calendarBlocks[i].allDay] :
   i \in BlockIds}

busyItemsV22(daysToCheck) ==
  busyAppointmentsV22(startRangeV22, addDays(startRangeV22, daysToCheck)) \cup busyBlocksV22

\* busyItems.filter(isOverlapping(item.start, item.end, dayStart, dayEnd));
\* dayEnd is 23:59:59.999, which a whole minute is before exactly when it is
\* before the next midnight
dayBusyItemsV22(busyItems, currentDay) ==
  {item \in busyItems :
     isOverlappingV22(item.start, item.end, setTime(currentDay, 0, 0),
                      setTime(currentDay, 24, 0))}

hasFullDayBlock(dayBusyItems) ==
  \E item \in dayBusyItems : item.type = "block" /\ item.allDay

\* a distance gate that lets the day through while one appointment is near
blockedOnlyWhenAllAreFar(lat, appointmentsToday) ==
  /\ appointmentsToday # {}
  /\ \A a \in appointmentsToday : a.lat # Absent /\ getDistanceInKmV22Exceeds(lat, a.lat)

\* the loop over appointmentsToday that sets blockedByDistance
blockedByDistance(lat, appointmentsToday) ==
  \E a \in appointmentsToday : a.lat # Absent /\ getDistanceInKmV22Exceeds(lat, a.lat)

blocksToUseV22(requestedTimeRaw) ==
  IF requestedTimeRaw \in {"morning", "mañana"} THEN <<"morning">>
  ELSE IF requestedTimeRaw \in {"afternoon", "tarde"} THEN <<"afternoon">>
  ELSE <<"morning", "afternoon">>

\* the (block, hour) turns of the two nested loops, in their order
hoursOfBlockV22(block) ==
  [k \in 1..(SCHEDULE_V22(block).endHour - SCHEDULE_V22(block).startHour) |->
     [hour |-> SCHEDULE_V22(block).startHour + k - 1,
      endHour |-> SCHEDULE_V22(block).endHour]]

RECURSIVE hoursOfBlocksV22(_)
hoursOfBlocksV22(blocks) ==
  IF blocks = <<>> THEN <<>>
  ELSE hoursOfBlockV22(Head(blocks)) \o hoursOfBlocksV22(Tail(blocks))

\* one turn of the hour loop: is the slot pushed?
slotPushedV22(slotStart, endOfShift, durationMinutes, dayBusyItems) ==
  IF slotStart < newDate THEN FALSE
  ELSE IF slotStart + durationMinutes > endOfShift THEN FALSE
  ELSE ~\E item \in dayBusyItems :
          isOverlappingV22(slotStart, slotStart + durationMinutes, item.start, item.end)

slotsOfHoursV22(currentDay, turns, durationMinutes, dayBusyItems) ==
  LET pushed == SelectSeq(turns, LAMBDA t :
                  slotPushedV22(setTime(currentDay, t.hour, 0),
                                setTime(currentDay, t.endHour, 0),
                                durationMinutes, dayBusyItems))
  IN  [k \in 1..Len(pushed) |->
         [date |-> toISODay(setTime(currentDay, pushed[k].hour, 0)),
          startTime |-> formatTime(setTime(currentDay, pushed[k].hour, 0)),
          endTime |-> formatTime(setTime(currentDay, pushed[k].hour + 1, 0))]]

\* the day loop after dayBusyItems is known
dayWithBusyV22(currentDay, target, requestedTimeRaw, dayBusyItems) ==
  IF hasFullDayBlock(dayBusyItems) THEN <<>>
  ELSE IF /\ target.lat # Absent
          /\ blockedByDistance(target.lat,
                               {x \in dayBusyItems : x.type = "appointment"})
       THEN <<>>
  ELSE slotsOfHoursV22(currentDay, hoursOfBlocksV22(blocksToUseV22(requestedTimeRaw)),
                       target.durationMinutes, dayBusyItems)

\* one turn of the day loop: the slots it pushes to availableSlots
dayV22(currentDay, target, requestedTimeRaw, busyItems) ==
  IF getDay(currentDay) = 0 \/ getDay(currentDay) = 6 THEN <<>>
  ELSE dayWithBusyV22(currentDay, target, requestedTimeRaw,
                      dayBusyItemsV22(busyItems, currentDay))

RECURSIVE availableSlotsV22(_, _, _, _, _)
availableSlotsV22(i, daysToCheck, target, requestedTimeRaw, busyItems) ==
  IF i >= daysToCheck THEN <<>>
  ELSE dayV22(addDays(getSpainNow, i), target, requestedTimeRaw, busyItems)
       \o availableSlotsV22(i + 1, daysToCheck, target, requestedTimeRaw, busyItems)

\* Object.keys(grouped).sort()
RECURSIVE sortKeysV22(_)
sortKeysV22(keys) ==
  IF keys = {} THEN <<>>
  ELSE <<CHOOSE m \in keys : \A y \in keys : m <= y>>
       \o sortKeysV22(keys \ {CHOOSE m \in keys : \A y \in keys : m <= y})

\* the reduce into grouped and the map over its sorted keys
responseArrayV22(keys, slots) ==
  [k \in 1..Len(keys) |->
     [date |-> keys[k], slots |-> SelectSeq(slots, LAMBDA x : x.date = keys[k])]]

groupedV22(slots) ==
  responseArrayV22(sortKeysV22({slots[k].date : k \in 1..Len(slots)}), slots)

\* app.post("/availability-smart") of V22; b = [lat, durationMinutes,
\* timePreference, token, rangeDays, qfail]; lat Absent, durationMinutes 0,
\* token 0 and rangeDays 0 are fields the body does not carry; qfail: a query
\* rejects, which the catch answers with no day at all
availabilitySmartV22(b) ==
  IF b.qfail THEN [status |-> 200, days |-> <<>>]
  ELSE [status |-> 200,
        days |-> groupedV22(availableSlotsV22(0, daysToCheckV22(b.rangeDays),
                                              targetV22(b), b.timePreference,
                                              busyItemsV22(daysToCheckV22(b.rangeDays))))]

(***************************************************************************)
(* The bounded world of SpecV22.                                           *)
(***************************************************************************)
MaxApptsE == 3
MaxBlocksE == 2

DocV22(date, duration, lat) ==
  [exists |-> TRUE, date |-> date, duration |-> duration, lat |-> lat]

BookingDocsV22 ==
  {DocV22(At(FirstBookingDay, 10, 0), 60, 9),
   DocV22(At(FirstBookingDay, 12, 0), 90, 1),
   DocV22(At(FirstBookingDay, 17, 0), Absent, Absent),
   DocV22(Absent, 120, 2)}

\* the bodies of POST /admin/blocks the administrator sends
BlockBodiesV22 ==
  {[startISO |-> At(FirstBookingDay, 0, 0), endISO |-> At(FirstBookingDay, 0, 0),
    allDay |-> TRUE, city |-> ""],
   [startISO |-> At(FirstBookingDay + 1, 9, 0), endISO |-> At(FirstBookingDay + 1, 20, 0),
    allDay |-> TRUE, city |-> "Algeciras"],
   [startISO |-> At(FirstBookingDay, 11, 0), endISO |-> At(FirstBookingDay, 13, 0),
    allDay |-> FALSE, city |-> ""]}

AuthChoices == {"missing", "invalid", "valid"}

RequestsV22 ==
  [lat : {Absent, 0}, durationMinutes : {0}, timePreference : {""},
   token : {0}, rangeDays : {3}, qfail : {FALSE}]
  \cup [lat : {0}, durationMinutes : {90}, timePreference : {"morning"},
        token : {0}, rangeDays : {3}, qfail : BOOLEAN]
  \cup [lat : {Absent}, durationMinutes : {0}, timePreference : {"tarde"},
        token : {1}, rangeDays : {0}, qfail : {FALSE}]

InitV22 ==
  /\ tz \in TzChoices
  /\ now = At(FirstBookingDay, 8, 0)
  /\ apiKey = FALSE
  /\ appointments = [i \in 1..MaxApptsE |-> NoDoc]
  /\ calendarBlocks = [i \in 1..MaxBlocksE |-> NoDoc]
  /\ geocodeCache = {}
  /\ distanceCache = {}
  /\ resp = NoResp
  /\ InitSide

\* the agenda application books a visit
PutAppointmentV22 ==
  \E id \in 1..MaxApptsE, doc \in BookingDocsV22 :
    /\ ~appointments[id].exists
    /\ \A j \in 1..MaxApptsE : j < id => appointments[j].exists
    /\ \A j \in 1..MaxApptsE : appointments[j] # doc
    /\ appointments' = [appointments EXCEPT ![id] = doc]
    /\ resp' = NoResp
    /\ UNCHANGED <<sideState, tz, now, apiKey, calendarBlocks, geocodeCache, distanceCache>>

\* app.post("/admin/blocks") behind verifyFirebaseUser
PostAdminBlocksV22 ==
  \E b \in BlockBodiesV22, auth \in AuthChoices :
    IF verifyFirebaseUserV22(auth) # 0
      THEN /\ resp' = [status |-> verifyFirebaseUserV22(auth)]
           /\ UNCHANGED <<sideState, tz, now, apiKey, appointments, calendarBlocks,
                          geocodeCache, distanceCache>>
      ELSE \E id \in 1..MaxBlocksE :
             /\ ~calendarBlocks[id].exists
             /\ \A j \in 1..MaxBlocksE : j < id => calendarBlocks[j].exists
             /\ calendarBlocks' =
                  [calendarBlocks EXCEPT ![id] =
                     newBlockV22(b.startISO, b.endISO, b.allDay, b.city)]
             /\ resp' = NoResp
             /\ UNCHANGED <<sideState, tz, now, apiKey, appointments, geocodeCache, distanceCache>>

\* app.delete("/admin/blocks/:id") behind verifyFirebaseUser
DeleteAdminBlocksV22 ==
  \E id \in 1..MaxBlocksE, auth \in AuthChoices :
    IF verifyFirebaseUserV22(auth) # 0
      THEN /\ resp' = [status |-> verifyFirebaseUserV22(auth)]
           /\ UNCHANGED <<sideState, tz, now, apiKey, appointments, calendarBlocks,
                          geocodeCache, distanceCache>>
      ELSE /\ calendarBlocks[id].exists
           /\ calendarBlocks' = [calendarBlocks EXCEPT ![id] = NoDoc]
           /\ resp' = NoResp
           /\ UNCHANGED <<sideState, tz, now, apiKey, appointments, geocodeCache, distanceCache>>

AnswerV22(b, r) ==
  /\ resp' = [status |-> r.status, days |-> r.days, body |-> b]
  /\ UNCHANGED <<sideState, tz, now, apiKey, appointments, calendarBlocks, geocodeCache, distanceCache>>

AvailabilitySmartV22 ==
  \E b \in RequestsV22 : AnswerV22(b, availabilitySmartV22(b))

NextV22 ==
  \/ PutAppointmentV22
  \/ PostAdminBlocksV22
  \/ DeleteAdminBlocksV22
  \/ Tick
  \/ AvailabilitySmartV22

SpecV22 == InitV22 /\ [][NextV22]_vars

(***************************************************************************)
(* Properties of V22.                                                      *)
(***************************************************************************)
\* the weekdays the answer was asked to cover: today and the days after it
AskedDaysV22 ==
  {d \in DayOf(now)..(DayOf(now) + daysToCheckV22(resp.body.rangeDays) - 1) :
     d % 7 \notin {0, 6}}

\* C6: whatever startISO and endISO a stored block with allDay = true was
\* created with, every weekday between the day of its start and the day of
\* its end is absent from the answer.
C6_AllDayBlockRemovesItsDays ==
  Answered200 =>
    \A i \in BlockIds :
      calendarBlocks[i].allDay =>
        \A d \in DayOf(calendarBlocks[i].start)..DayOf(calendarBlocks[i].end) :
          d \notin ReturnedDates

\* what the handler does keep: an allDay block whose window holds the whole
\* working day, 09:00 to 20:00, removes that day
C6_HoldsWhenTheBlockSpansTheWorkingDay ==
  Answered200 =>
    \A i \in BlockIds : \A d \in AskedDaysV22 :
      (/\ calendarBlocks[i].allDay
       /\ calendarBlocks[i].start <= At(d, 9, 0)
       /\ calendarBlocks[i].end >= At(d, 20, 0))
      => d \notin ReturnedDates

\* the appointments the distance gate of the answer counts as far
FarFromTargetV22(i) ==
  /\ appointments[i].date # Absent
  /\ appointments[i].lat # Absent
  /\ haversineMetres(targetV22(resp.body).lat, appointments[i].lat) > 5000

\* C9: when the target coordinates are known, a day holding an appointment
\* with known coordinates farther than 5 km from the target is absent from
\* the answer, whatever the other appointments of that day are.
C9_DayWithFarAppointmentIsAbsent ==
  (Answered200 /\ targetV22(resp.body).lat # Absent) =>
    \A i \in ExistingIds :
      FarFromTargetV22(i) => DayOf(appointments[i].date) \notin ReturnedDates

\* an answer for a located client on a day that holds a far appointment, a
\* near one and one without coordinates, no block stored, other days returned
C9_Witness ==
  /\ Answered200
  /\ ~resp.body.qfail
  /\ targetV22(resp.body).lat # Absent
  /\ BlockIds = {}
  /\ resp.days # <<>>
  /\ \E i, j, k \in ExistingIds :
       /\ FarFromTargetV22(i)
       /\ DayOf(appointments[i].date) \in AskedDaysV22
       /\ j # i /\ appointments[j].date # Absent /\ appointments[j].lat # Absent
       /\ DayOf(appointments[j].date) = DayOf(appointments[i].date)
       /\ ~FarFromTargetV22(j)
       /\ appointments[k].date # Absent /\ appointments[k].lat = Absent
       /\ DayOf(appointments[k].date) = DayOf(appointments[i].date)

(***************************************************************************)
(* V3, src/unnamed/part_006: the route simulation of V5 without the        *)
(* calendar blocks.  Its slots are laid out on the Spanish wall clock      *)
(* (getSpainDate), its existing stops are read with Timestamp.toDate().    *)
(*                                                                         *)
(* An "appointments" document of V3 and V5 in one record:                  *)
(*   date, duration, address, city   as in V5                              *)
(*   estimatedDuration   a number, 0 when the field is missing             *)
(*   zip                 a string                                          *)
(***************************************************************************)
SCHEDULE_V3(block) ==
  IF block = "afternoon"
    THEN [startHour |-> 17, startMinute |-> 0, endHour |-> 19, endMinute |-> 0]
    ELSE [startHour |-> 9, startMinute |-> 30, endHour |-> 14, endMinute |-> 0]

\* getDateOnly: setHours(0,0,0,0)
getDateOnly(d) == DayOf(d) * MinutesPerDay

generateSlotsForDayAndBlockV3(dayDate, rawBlock) ==
  LET config == SCHEDULE_V3(normalizeBlockV5(rawBlock))
      first == setTime(dayDate, config.startHour, config.startMinute)
      endLimit == setTime(dayDate, config.endHour, config.endMinute)
  IN  [k \in 1..((endLimit - first + SLOT_INTERVAL - 1) \div SLOT_INTERVAL) |->
         addMinutes(first, SLOT_INTERVAL * (k - 1))]

isSlotFeasibleV3(slotStart, newLocation, newDuration, rawBlock, existingAppointments, net) ==
  IF addMinutes(slotStart, newDuration)
       > setTime(getDateOnly(slotStart),
                 SCHEDULE_V3(normalizeBlockV5(rawBlock)).endHour,
                 SCHEDULE_V3(normalizeBlockV5(rawBlock)).endMinute)
    THEN [ok |-> FALSE, fetched |-> {}]
  ELSE routeChecked(routeOf(existingAppointments,
                            [start |-> slotStart,
                             end |-> addMinutes(slotStart, newDuration),
                             location |-> newLocation, fetched |-> {}]),
                    getDateOnly(slotStart), net)

\* one turn of the loop over snap.docs
apptOfDayV3(d, normBlock, loc) ==
  IF normBlock = "morning" /\ getHours(toDate(d.date)) >= 15 THEN <<>>
  ELSE IF normBlock = "afternoon" /\ getHours(toDate(d.date)) < 15 THEN <<>>
  ELSE <<[start |-> toDate(d.date),
          end |-> addMinutes(toDate(d.date),
                             IF d.duration = 0 THEN SERVICE_DEFAULT_MIN ELSE d.duration),
          location |-> loc.lat, fetched |-> loc.fetched]>>

RECURSIVE apptsOfDayV3(_, _, _)
apptsOfDayV3(docs, normBlock, net) ==
  IF docs = <<>> THEN <<>>
  ELSE apptOfDayV3(appointments[Head(docs)], normBlock,
                   IF appointments[Head(docs)].address # ""
                     THEN geocodeAddressV5(fullAddress(appointments[Head(docs)].address,
                                                       appointments[Head(docs)].city), net)
                     ELSE [lat |-> HOME_ALGECIRAS, fetched |-> {}])
       \o apptsOfDayV3(Tail(docs), normBlock, net)

getAppointmentsForDayV3(dateObj, block, net) ==
  apptsOfDayV3(
    sortByDate({i \in ExistingIds :
                  /\ appointments[i].date # Absent
                  /\ toDate(appointments[i].date) >= getDateOnly(dateObj)
                  /\ toDate(appointments[i].date) < addMinutes(getDateOnly(dateObj), 24 * 60)}),
    normalizeBlockV5(block), net)

\* one turn of the slot loop
slotV3(slotStart, today, duration, clientLat, block, existing, net) ==
  IF slotStart < today THEN [ok |-> FALSE, fetched |-> {}]
  ELSE isSlotFeasibleV3(slotStart, clientLat, duration, block, existing, net)

dayWithExistingV3(day, slots, today, duration, clientLat, block, existing, net) ==
  dayValidV5(toISODay(day), slots,
             [k \in 1..Len(slots) |->
                slotV3(slots[k], today, duration, clientLat, block, existing, net)],
             duration, existing)

\* one turn of the day loop
dayV3(day, today, duration, clientLat, block, net) ==
  IF getDay(day) = 0 \/ getDay(day) = 6 THEN SkipDayV5
  ELSE dayWithExistingV3(day, generateSlotsForDayAndBlockV3(day, block), today,
                         duration, clientLat, block,
                         getAppointmentsForDayV3(day, block, net), net)

RECURSIVE resultDaysV3(_, _, _, _, _, _, _)
resultDaysV3(i, range, today, duration, clientLat, block, net) ==
  IF i >= range THEN [days |-> <<>>, fetched |-> {}, paired |-> {}]
  ELSE daysJoinV5(dayV3(addMinutes(today, i * 24 * 60), today, duration,
                        clientLat, block, net),
                  resultDaysV3(i + 1, range, today, duration, clientLat, block, net))

\* app.post("/availability-smart") of V3; body = [token, block, rangeDays, net]
availabilitySmartV3(body) ==
  IF body.token = 0 THEN [status |-> 500, days |-> <<>>, fetched |-> {}, paired |-> {}]
  ELSE IF ~appointments[body.token].exists
    THEN [status |-> 404, days |-> <<>>, fetched |-> {}, paired |-> {}]
  ELSE answerV5(geocodeAddressV5(<<appointments[body.token].address,
                                   appointments[body.token].city,
                                   appointments[body.token].zip>>, body.net),
                resultDaysV3(0, IF body.rangeDays = 0 THEN 14 ELSE body.rangeDays,
                             getSpainNow,
                             IF appointments[body.token].estimatedDuration = 0
                               THEN SERVICE_DEFAULT_MIN
                               ELSE appointments[body.token].estimatedDuration,
                             geocodeAddressV5(<<appointments[body.token].address,
                                                appointments[body.token].city,
                                                appointments[body.token].zip>>,
                                              body.net).lat,
                             body.block, body.net))

(***************************************************************************)
(* The bounded world of SpecRoute: the handlers of V3 and of V5 over one   *)
(* store with two clients and one booked visit.                            *)
(***************************************************************************)
MaxApptsR == 3

DocV3(date, duration, address, city) ==
  [exists |-> TRUE, date |-> date, duration |-> duration, estimatedDuration |-> 0,
   address |-> address, city |-> city, zip |-> "11201"]

\* the two clients: one 28 minutes from Tarifa, one 32 minutes from it
TokenDocsRoute ==
  <<DocV3(Absent, 0, "calle near", "Algeciras"),
    DocV3(Absent, 0, "calle puerto", "Algeciras")>>

BookingDocsRoute ==
  {DocV3(At(FirstBookingDay, 9, 30), 0, "calle far", "Tarifa"),
   DocV3(At(FirstBookingDay, 12, 30), 90, "calle far", "Tarifa"),
   DocV3(At(FirstBookingDay, 11, 0), 0, "", "")}

RequestsRoute ==
  [token : {1, 2}, block : {""}, rangeDays : {1}, net : {"ok"}, variant : {"V3", "V5"}]
  \cup [token : {2}, block : {""}, rangeDays : {1}, net : {"fail"},
        variant : {"V3", "V5"}]
  \cup [token : {1}, block : {"tarde"}, rangeDays : {0}, net : {"ok"},
        variant : {"V3", "V5"}]
  \cup [token : {0, 3}, block : {""}, rangeDays : {1}, net : {"ok"}, variant : {"V3"}]

InitRoute ==
  /\ tz \in TzChoices
  /\ now = At(FirstBookingDay, 8, 0)
  /\ apiKey \in BOOLEAN
  /\ appointments = [i \in 1..MaxApptsR |-> IF i <= 2 THEN TokenDocsRoute[i] ELSE NoDoc]
  /\ calendarBlocks = [i \in 1..MaxBlocks |-> NoDoc]
  /\ geocodeCache = {}
  /\ distanceCache = {}
  /\ resp = NoResp
  /\ InitSide

\* the agenda application books a visit
PutAppointmentRoute ==
  \E id \in 3..MaxApptsR, doc \in BookingDocsRoute :
    /\ ~appointments[id].exists
    /\ \A j \in 3..MaxApptsR : appointments[j] # doc
    /\ \A j \in 3..MaxApptsR : j < id => appointments[j].exists
    /\ appointments' = [appointments EXCEPT ![id] = doc]
    /\ resp' = NoResp
    /\ UNCHANGED <<sideState, tz, now, apiKey, calendarBlocks, geocodeCache, distanceCache>>

AvailabilitySmartV3 ==
  \E body \in RequestsRoute :
    /\ body.variant = "V3"
    /\ AnswerV5(body, availabilitySmartV3(body))

AvailabilitySmartRouteV5 ==
  \E body \in RequestsRoute :
    /\ body.variant = "V5"
    /\ AnswerV5(body, availabilitySmartV5(body))

NextRoute ==
  \/ PutAppointmentRoute
  \/ AvailabilitySmartV3
  \/ AvailabilitySmartRouteV5

SpecRoute == InitRoute /\ [][NextRoute]_vars

(***************************************************************************)
(* Properties of the route policy.                                         *)
(***************************************************************************)
\* the duration the answered handler gave the new stop
NewDurationRoute ==
  IF resp.body.variant = "V3"
    THEN (IF appointments[resp.body.token].estimatedDuration = 0
            THEN SERVICE_DEFAULT_MIN
            ELSE appointments[resp.body.token].estimatedDuration)
    ELSE parseDurationMinutesV5(parseDurationMinutesV5(appointments[resp.body.token].duration))
\* the i-th day the answered handler walked through
DayRoute(i) ==
  IF resp.body.variant = "V3" THEN addMinutes(getSpainNow, i * 24 * 60)
  ELSE spainDayStart(addDays(getSpainNow, i))
DateRoute(i) ==
  IF resp.body.variant = "V3" THEN toISODay(DayRoute(i)) ELSE toDayKeyES(DayRoute(i))
\* the existing stops the handler passed to isSlotFeasible for that day
ExistingRoute(i) ==
  IF resp.body.variant = "V3"
    THEN getAppointmentsForDayV3(DayRoute(i), resp.body.block, resp.body.net)
    ELSE getAppointmentsForDay(DayRoute(i), resp.body.block, resp.body.net)
\* the location the handler gave the new stop
ClientLocRoute ==
  geocodeAddressV5(IF resp.body.variant = "V3"
                     THEN <<appointments[resp.body.token].address,
                            appointments[resp.body.token].city,
                            appointments[resp.body.token].zip>>
                     ELSE <<appointments[resp.body.token].address,
                            appointments[resp.body.token].city>>,
                   resp.body.net).lat
\* the route of an offered slot of the i-th day
OfferedRoute(i, s) ==
  routeOf(ExistingRoute(i),
          [start |-> setTime(DayRoute(i), s.startTime \div 60, s.startTime % 60),
           end |-> addMinutes(setTime(DayRoute(i), s.startTime \div 60, s.startTime % 60),
                              NewDurationRoute),
           location |-> ClientLocRoute, fetched |-> {}])
\* the computed travel time of the hop from stop k to stop k + 1
HopMinutes(route, k) ==
  getTravelTimeMinutes(route[k].location, route[k + 1].location, resp.body.net).min
\* the number of days the answered handler walked through
RangeRoute == IF resp.body.rangeDays = 0 THEN 14 ELSE resp.body.rangeDays
\* the routes of the offered slots
OfferedRoutes ==
  UNION {UNION {{OfferedRoute(i, resp.days[k].slots[j]) :
                   j \in 1..Len(resp.days[k].slots)} :
                k \in {d \in 1..Len(resp.days) : resp.days[d].date = DateRoute(i)}} :
         i \in 0..(RangeRoute - 1)}

\* C11: for every offered slot, in the route that merges the day's existing
\* stops with the new stop, sorted by start time, the computed travel time
\* between every two consecutive stops is at most 30 minutes.
C11_NoLongHopBetweenJobs ==
  Answered200 =>
    \A route \in OfferedRoutes : \A k \in 1..(Len(route) - 1) :
      HopMinutes(route, k) <= MAX_TRAVEL_ALLOWED_BETWEEN_JOBS

\* an offered slot of V3 whose route has an existing stop and starts with a
\* hop from the home base of more than 30 minutes
C11_Witness ==
  /\ Answered200
  /\ resp.body.variant = "V3"
  /\ \E route \in OfferedRoutes :
       /\ Len(route) >= 2
       /\ getTravelTimeMinutes(HOME_ALGECIRAS, route[1].location, resp.body.net).min
            > MAX_TRAVEL_ALLOWED_BETWEEN_JOBS

\* the same for V5, with one existing stop
C11_WitnessV5 ==
  /\ Answered200
  /\ resp.body.variant = "V5"
  /\ \E route \in OfferedRoutes : Len(route) >= 2

(***************************************************************************)
(* V2, src/unnamed/part_001: the strict route.  Every Date of this         *)
(* iteration is read in the server's own zone.                             *)
(*                                                                         *)
(* An "appointments" document: date (a Timestamp, or Absent), duration (a  *)
(* number, 0 when the field is no number), address, city, zip.             *)
(***************************************************************************)
MORNING_START == 9
MORNING_END == 14
AFTERNOON_START == 16
AFTERNOON_END == 20
SLOT_MINUTES == 60
SERVICE_MINUTES_DEFAULT == 60
TRAVEL_MARGIN_MINUTES_V2 == 10

\* "mañ", "man" or "morn" in the lower-cased block, then "tard" or "after"
normalizeBlockV2(block) ==
  IF block \in {"morning", "mañana"} THEN "morning"
  ELSE IF block \in {"afternoon", "tarde"} THEN "afternoon"
  ELSE "morning"

blockStartHourV2(block) == IF block = "morning" THEN MORNING_START ELSE AFTERNOON_START
blockEndHourV2(block) == IF block = "morning" THEN MORNING_END ELSE AFTERNOON_END

buildDateWithHour(baseDate, hour) == setTime(baseDate, hour, 0)

\* getNextDays: today's midnight and the midnights after it
getNextDays(rangeDays) ==
  [k \in 1..rangeDays |-> getDateOnly(newDate) + (k - 1) * 24 * 60]

\* geocodeAddress of V2: it throws where the later iterations fall back
geocodeAddressV2(fullAddr, net) ==
  IF fullAddr = <<>> THEN GeoThrew
  ELSE IF fullAddr \in geocodeCache THEN Located(GeoService(fullAddr), {})
  ELSE IF ~apiKey THEN GeoThrew
  ELSE IF net = "fail" THEN GeoThrew
  ELSE IF GeoService(fullAddr) = Absent THEN GeoThrew
  ELSE Located(GeoService(fullAddr), {fullAddr})

\* getTravelTimeMinutes of V2: no cache
getTravelTimeMinutesV2(origin, destination, net) ==
  IF origin = destination THEN 0
  ELSE IF ~apiKey THEN 20
  ELSE IF net = "fail" THEN 20
  ELSE TravelService(origin, destination)

\* the starts of the slots of a block: every hour whose slot ends by the close
generateSlotsForDayAndBlockV2(dayDate, rawBlock) ==
  [k \in 1..(blockEndHourV2(normalizeBlockV2(rawBlock))
               - blockStartHourV2(normalizeBlockV2(rawBlock))) |->
     addMinutes(buildDateWithHour(dayDate, blockStartHourV2(normalizeBlockV2(rawBlock))),
                SLOT_MINUTES * (k - 1))]

\* a trip back home that is never checked
backHomeAlwaysFits(currentTime, currentLocation, blockEndDate, net) == TRUE

\* the trip back home after the last stop
backHomeFitsV2(currentTime, currentLocation, blockEndDate, net) ==
  ~(addMinutes(currentTime,
               getTravelTimeMinutesV2(currentLocation, HOME_ALGECIRAS, net)
                 + TRAVEL_MARGIN_MINUTES_V2) > blockEndDate)

\* the loop over allAppointments, from stop i on
RECURSIVE routeWalkV2(_, _, _, _, _, _)
routeWalkV2(all, i, currentLocation, currentTime, blockEndDate, net) ==
  IF i > Len(all) THEN backHomeFitsV2(currentTime, currentLocation, blockEndDate, net)
  ELSE IF addMinutes(currentTime,
                     getTravelTimeMinutesV2(currentLocation, all[i].location, net)
                       + TRAVEL_MARGIN_MINUTES_V2) > all[i].start
    THEN FALSE
  ELSE IF addMinutes(all[i].start, all[i].durationMinutes) > blockEndDate THEN FALSE
  ELSE routeWalkV2(all, i + 1, all[i].location,
                   addMinutes(all[i].start, all[i].durationMinutes), blockEndDate, net)

\* a test that only looks for an overlap with an existing stop
isSlotFeasibleOverlapOnly(slotStart, newLocation, rawBlock, existingAppointmentsForBlock, net) ==
  ~\E k \in 1..Len(existingAppointmentsForBlock) :
     /\ slotStart < existingAppointmentsForBlock[k].end
     /\ addMinutes(slotStart, SLOT_MINUTES) > existingAppointmentsForBlock[k].start

isSlotFeasibleV2(slotStart, newLocation, rawBlock, existingAppointmentsForBlock, net) ==
  IF \E k \in 1..Len(existingAppointmentsForBlock) :
       /\ slotStart < existingAppointmentsForBlock[k].end
       /\ addMinutes(slotStart, SLOT_MINUTES) > existingAppointmentsForBlock[k].start
    THEN FALSE
  ELSE routeWalkV2(
         sortByStart(existingAppointmentsForBlock
                     \o <<[start |-> slotStart,
                           end |-> addMinutes(slotStart, SERVICE_MINUTES_DEFAULT),
                           durationMinutes |-> SERVICE_MINUTES_DEFAULT,
                           location |-> newLocation, fetched |-> {}]>>),
         1, HOME_ALGECIRAS,
         IF /\ getDateOnly(slotStart) = getDateOnly(newDate)
            /\ newDate > buildDateWithHour(getDateOnly(slotStart),
                                           blockStartHourV2(normalizeBlockV2(rawBlock)))
           THEN newDate
           ELSE buildDateWithHour(getDateOnly(slotStart),
                                  blockStartHourV2(normalizeBlockV2(rawBlock))),
         buildDateWithHour(getDateOnly(slotStart),
                           blockEndHourV2(normalizeBlockV2(rawBlock))),
         net)

\* one turn of the loop over snap.docs; loc is the outcome of geocodeAddress
apptOfDayBlockV2(d, block, loc) ==
  IF \/ getHours(toDate(d.date)) < blockStartHourV2(block)
     \/ getHours(toDate(d.date)) >= blockEndHourV2(block)
    THEN <<>>
  ELSE <<[start |-> toDate(d.date),
          end |-> addMinutes(toDate(d.date), Max2(d.duration, SERVICE_MINUTES_DEFAULT)),
          durationMinutes |-> Max2(d.duration, SERVICE_MINUTES_DEFAULT),
          location |-> IF loc.threw THEN HOME_ALGECIRAS ELSE loc.lat,
          fetched |-> loc.fetched]>>

RECURSIVE apptsOfDayBlockV2(_, _, _)
apptsOfDayBlockV2(docs, block, net) ==
  IF docs = <<>> THEN <<>>
  ELSE apptOfDayBlockV2(appointments[Head(docs)], block,
                        geocodeAddressV2(IF appointments[Head(docs)].address = ""
                                           THEN <<>>
                                           ELSE <<appointments[Head(docs)].address>>,
                                         net))
       \o apptsOfDayBlockV2(Tail(docs), block, net)

getAppointmentsForDayBlock(dayDate, rawBlock, net) ==
  apptsOfDayBlockV2(
    sortByDate({i \in ExistingIds :
                  /\ appointments[i].date # Absent
                  /\ toDate(appointments[i].date) >= getDateOnly(dayDate)
                  /\ toDate(appointments[i].date) < getDateOnly(dayDate) + 24 * 60}),
    normalizeBlockV2(rawBlock), net)

\* one day of the handler's loop, its existing appointments given
dayWithExistingV2(day, slots, clientLocation, normBlock, existing, net) ==
  LET valid == SelectSeq(slots, LAMBDA c :
                 /\ ~(getDateOnly(day) = getDateOnly(newDate) /\ c <= newDate)
                 /\ isSlotFeasibleV2(c, clientLocation, normBlock, existing, net))
  IN  [skip |-> valid = <<>>,
       date |-> toISODay(day),
       slots |-> [k \in 1..Len(valid) |->
                    [startTime |-> formatTime(valid[k]),
                     endTime |-> formatTime(addMinutes(valid[k], SLOT_MINUTES))]],
       fetched |-> UNION {existing[k].fetched : k \in 1..Len(existing)},
       paired |-> {}]

dayV2(day, clientLocation, normBlock, net) ==
  IF getDay(day) = 0 \/ getDay(day) = 6 THEN SkipDayV5
  ELSE dayWithExistingV2(day, generateSlotsForDayAndBlockV2(day, normBlock),
                         clientLocation, normBlock,
                         getAppointmentsForDayBlock(day, normBlock, net), net)

RECURSIVE resultDaysV2(_, _, _, _, _)
resultDaysV2(i, allDays, clientLocation, normBlock, net) ==
  IF i > Len(allDays) THEN [days |-> <<>>, fetched |-> {}, paired |-> {}]
  ELSE daysJoinV5(dayV2(allDays[i], clientLocation, normBlock, net),
                  resultDaysV2(i + 1, allDays, clientLocation, normBlock, net))

\* service.address + ", " + service.city + ", " + service.zip, the empty
\* city and zip left out
clientAddressV2(service) ==
  <<service.address>>
  \o (IF service.city # "" THEN <<service.city>> ELSE <<>>)
  \o (IF service.zip # "" THEN <<service.zip>> ELSE <<>>)

\* the handler once the client's address went through geocodeAddress
answerV2(body, clientLocation) ==
  IF clientLocation.threw
    THEN [status |-> 500, days |-> <<>>, fetched |-> {}, paired |-> {}]
  ELSE answerV5(clientLocation,
                resultDaysV2(1, getNextDays(IF body.rangeDays = Absent THEN 14
                                            ELSE body.rangeDays),
                             clientLocation.lat, normalizeBlockV2(body.block), body.net))

\* app.post("/availability-smart") of V2; body = [token, block, rangeDays, net];
\* token 0 and block "" are missing fields, rangeDays Absent is no number
availabilitySmartV2(body) ==
  IF body.token = 0 \/ body.block = ""
    THEN [status |-> 400, days |-> <<>>, fetched |-> {}, paired |-> {}]
  ELSE IF ~appointments[body.token].exists
    THEN [status |-> 404, days |-> <<>>, fetched |-> {}, paired |-> {}]
  ELSE answerV2(body, geocodeAddressV2(clientAddressV2(appointments[body.token]), body.net))

(***************************************************************************)
(* The bounded world of SpecV2.                                            *)
(***************************************************************************)
MaxApptsF == 3

TokenDocsV2 == {DocV3(Absent, 0, "calle near", "Algeciras")}

BookingDocsV2 ==
  {DocV3(At(FirstBookingDay, 9, 10), 0, "", ""),
   DocV3(At(FirstBookingDay, 12, 30), 60, "", ""),
   DocV3(At(FirstBookingDay, 10, 0), 0, "calle far", "Tarifa"),
   DocV3(At(FirstBookingDay, 16, 30), 45, "calle near", "Algeciras")}

RequestsV2 ==
  [token : 0..2, block : {"morning"}, rangeDays : {2}, net : {"ok"}]
  \cup [token : {1}, block : {"", "tarde"}, rangeDays : {2}, net : {"ok"}]
  \cup [token : {1}, block : {"morning"}, rangeDays : {2}, net : {"fail"}]
  \cup [token : {1}, block : {"tarde"}, rangeDays : {Absent}, net : {"ok"}]

InitV2 ==
  /\ tz \in TzChoices
  /\ now = At(FirstBookingDay, 8, 0)
  /\ apiKey \in BOOLEAN
  /\ \E t \in TokenDocsV2 :
       appointments = [i \in 1..MaxApptsF |-> IF i = 1 THEN t ELSE NoDoc]
  /\ calendarBlocks = [i \in 1..MaxBlocks |-> NoDoc]
  /\ geocodeCache = {}
  /\ distanceCache = {}
  /\ resp = NoResp
  /\ InitSide

\* the agenda application books a visit
PutAppointmentV2 ==
  \E id \in 2..MaxApptsF, doc \in BookingDocsV2 :
    /\ ~appointments[id].exists
    /\ \A j \in 2..MaxApptsF : appointments[j] # doc
    /\ \A j \in 2..MaxApptsF : j < id => appointments[j].exists
    /\ appointments' = [appointments EXCEPT ![id] = doc]
    /\ resp' = NoResp
    /\ UNCHANGED <<sideState, tz, now, apiKey, calendarBlocks, geocodeCache, distanceCache>>

AvailabilitySmartV2 ==
  \E body \in RequestsV2 : AnswerV5(body, availabilitySmartV2(body))

NextV2 ==
  \/ PutAppointmentV2
  \/ Tick
  \/ AvailabilitySmartV2

SpecV2 == InitV2 /\ [][NextV2]_vars

(***************************************************************************)
(* Properties of the strict route.                                         *)
(***************************************************************************)
\* the days the answered handler walked through
DaysV2 == getNextDays(IF resp.body.rangeDays = Absent THEN 14 ELSE resp.body.rangeDays)
\* the location the handler gave the new stop
ClientLocV2 ==
  geocodeAddressV2(clientAddressV2(appointments[resp.body.token]), resp.body.net).lat
\* the stops of the block in start order when the slot s of day is taken
OfferedRouteV2(day, s) ==
  sortByStart(getAppointmentsForDayBlock(day, resp.body.block, resp.body.net)
              \o <<[start |-> setTime(day, s.startTime \div 60, s.startTime % 60),
                    end |-> setTime(day, s.endTime \div 60, s.endTime % 60),
                    durationMinutes |-> SERVICE_MINUTES_DEFAULT,
                    location |-> ClientLocV2, fetched |-> {}]>>)
OfferedRoutesV2 ==
  UNION {UNION {{OfferedRouteV2(DaysV2[i], resp.days[k].slots[j]) :
                   j \in 1..Len(resp.days[k].slots)} :
                k \in {d \in 1..Len(resp.days) : resp.days[d].date = toISODay(DaysV2[i])}} :
         i \in 1..Len(DaysV2)}
\* the close of the block of the day of a route
BlockEndV2(route) ==
  buildDateWithHour(getDateOnly(route[1].start),
                    blockEndHourV2(normalizeBlockV2(resp.body.block)))
BlockStartV2(route) ==
  buildDateWithHour(getDateOnly(route[1].start),
                    blockStartHourV2(normalizeBlockV2(resp.body.block)))
TravelV2(a, b) == getTravelTimeMinutesV2(a, b, resp.body.net)

\* C12: for every offered slot, with the stops of the block in start order:
\* the end of the last stop plus the travel time home plus the 10-minute
\* margin is no later than the close of the block, every stop after the
\* first is reached (previous end + travel + margin) by its scheduled start,
\* and so is the first one when leaving home at the opening of the block.
C12_StrictRouteFits ==
  Answered200 =>
    \A route \in OfferedRoutesV2 :
      /\ route[Len(route)].end
           + TravelV2(route[Len(route)].location, HOME_ALGECIRAS)
           + TRAVEL_MARGIN_MINUTES_V2 <= BlockEndV2(route)
      /\ \A k \in 2..Len(route) :
           route[k - 1].end + TravelV2(route[k - 1].location, route[k].location)
             + TRAVEL_MARGIN_MINUTES_V2 <= route[k].start
      /\ BlockStartV2(route) + TravelV2(HOME_ALGECIRAS, route[1].location)
           + TRAVEL_MARGIN_MINUTES_V2 <= route[1].start

\* an offered slot between two existing stops of its block
C12_Witness ==
  /\ Answered200
  /\ \E route \in OfferedRoutesV2 :
       /\ Len(route) = 3
       /\ route[2].location = ClientLocV2
       /\ route[1].location # ClientLocV2
       /\ route[3].location # ClientLocV2

\* an offered slot that follows a stop 36 minutes from the home base
C12_WitnessFar ==
  /\ Answered200
  /\ \E route \in OfferedRoutesV2 :
       /\ Len(route) = 2
       /\ TravelV2(HOME_ALGECIRAS, route[1].location) > 30
       /\ route[2].location = ClientLocV2

\* C29: no answer offers the grid slot that starts at the opening of the
\* block (09:00, 16:00) nor the one that ends at its close (13:00-14:00,
\* 19:00-20:00), whatever the store holds, wherever the client is and
\* whatever the time is.
C29_EdgeSlotsNeverOffered ==
  Answered200 =>
    \A k \in 1..Len(resp.days) : \A j \in 1..Len(resp.days[k].slots) :
      /\ resp.days[k].slots[j].startTime
           # blockStartHourV2(normalizeBlockV2(resp.body.block)) * 60
      /\ resp.days[k].slots[j].endTime
           # blockEndHourV2(normalizeBlockV2(resp.body.block)) * 60

\* an answer that offers a day every grid slot but the two at the edges,
\* while a visit is booked in the store
C29_Witness ==
  /\ Answered200
  /\ BookingIds # {}
  /\ \E k \in 1..Len(resp.days) :
       /\ Len(resp.days[k].slots)
            = blockEndHourV2(normalizeBlockV2(resp.body.block))
                - blockStartHourV2(normalizeBlockV2(resp.body.block)) - 2
       /\ resp.days[k].slots[1].startTime
            = (blockStartHourV2(normalizeBlockV2(resp.body.block)) + 1) * 60


(***************************************************************************)
(* The appointment requests.                                               *)
(*                                                                         *)
(* A text field of a request body is [text, pad]: text is what the field   *)
(* says (a document id, a day index, a minute of the day), Absent when the *)
(* field is missing or holds white space only, BadText when it does not    *)
(* have the expected format; pad tells that white space surrounds it.      *)
(***************************************************************************)
BadText == 0 - 2
Text(text, pad) == [text |-> text, pad |-> pad]

\* String(t).replace(/\s+/g, " ").trim(), "" for a missing field
cleanText(t) == [text |-> t.text, pad |-> FALSE]
\* String.prototype.trim
trim(t) == [text |-> t.text, pad |-> FALSE]
\* !s of a string
IsEmptyText(t) == t.text = Absent /\ ~t.pad

\* parseISODate of a string: null unless /^\d{4}-\d{2}-\d{2}$/ matches
parsesAsISODate(t) == ~t.pad /\ t.text >= 0
\* parseHHMMToMinutes: it trims, then null unless "HH:MM" within the day
parseHHMMToMinutes(t) ==
  IF trim(t).text >= 0 /\ trim(t).text < MinutesPerDay THEN trim(t).text ELSE Absent

(***************************************************************************)
(* V11 of src/unnamed/part_002: POST /appointment-request.                 *)
(***************************************************************************)
\* the payload that keeps the start time in both time fields
payloadKeepsStartOnly(token, tokenDoc, block, date, startTime, endTime) ==
  [token |-> token, status |-> "pending", requestedBlock |-> block,
   requestedDate |-> date, requestedStartTime |-> startTime,
   requestedEndTime |-> startTime,
   estimatedDurationMinutes |-> pickDurationMinutes(tokenDoc),
   createdAt |-> now, updatedAt |-> Absent]

payloadV11b(token, tokenDoc, block, date, startTime, endTime) ==
  [token |-> token, status |-> "pending", requestedBlock |-> block,
   requestedDate |-> date, requestedStartTime |-> startTime,
   requestedEndTime |-> endTime,
   estimatedDurationMinutes |-> pickDurationMinutes(tokenDoc),
   createdAt |-> now, updatedAt |-> Absent]

\* a query that looks for the open requests only
existingSnapOpenOnly(token) ==
  {k \in 1..Len(changeRequests) :
     changeRequests[k].token = token /\ changeRequests[k].status = "open"}

\* where("token", "==", token).where("status", "in", ["pending", "open"])
existingSnapV11b(token) ==
  {k \in 1..Len(changeRequests) :
     changeRequests[k].token = token /\ changeRequests[k].status \in {"pending", "open"}}

\* the handler from the query on; docId is the document limit(1) returned,
\* 0 when the snapshot is empty
storeRequestV11b(payload, docId) ==
  IF docId # 0
    THEN [status |-> 200, updated |-> TRUE,
          changeRequests |->
            [changeRequests EXCEPT ![docId] = [payload EXCEPT !.updatedAt = now]]]
    ELSE [status |-> 200, updated |-> FALSE,
          changeRequests |-> Append(changeRequests, payload)]

\* app.post("/appointment-request") of part_002
appointmentRequestV11b(body, docId) ==
  IF \/ IsEmptyText(cleanText(body.token))
     \/ IsEmptyText(cleanText(body.date))
     \/ IsEmptyText(cleanText(body.startTime))
     \/ IsEmptyText(cleanText(body.endTime))
    THEN [status |-> 400, updated |-> FALSE, changeRequests |-> changeRequests]
  ELSE IF \/ ~parsesAsISODate(cleanText(body.date))
          \/ parseHHMMToMinutes(cleanText(body.startTime)) = Absent
          \/ parseHHMMToMinutes(cleanText(body.endTime)) = Absent
    THEN [status |-> 400, updated |-> FALSE, changeRequests |-> changeRequests]
  ELSE IF ~appointments[cleanText(body.token).text].exists
    THEN [status |-> 404, updated |-> FALSE, changeRequests |-> changeRequests]
  ELSE storeRequestV11b(payloadV11b(cleanText(body.token).text,
                                    appointments[cleanText(body.token).text],
                                    normalizeBlockV11b(body.block),
                                    cleanText(body.date).text,
                                    cleanText(body.startTime).text,
                                    cleanText(body.endTime).text),
                        docId)

(***************************************************************************)
(* The bounded world of SpecRequestV11b: two clients, a token nobody       *)
(* holds, at most MaxChangeRequests documents in "changeRequests".         *)
(***************************************************************************)
MaxChangeRequests == 2

RequestBodiesV11b ==
  [token : {Text(1, FALSE), Text(2, TRUE)}, block : {""},
   date : {Text(FirstBookingDay, FALSE), Text(FirstBookingDay + 1, TRUE)},
   startTime : {Text(600, FALSE)}, endTime : {Text(660, TRUE)}]
  \cup [token : {Text(1, FALSE)}, block : {"tarde"},
        date : {Text(FirstBookingDay, FALSE)},
        startTime : {Text(1020, TRUE)}, endTime : {Text(1080, FALSE)}]
  \cup [token : {Text(3, FALSE), Text(Absent, FALSE), Text(Absent, TRUE)}, block : {""},
        date : {Text(FirstBookingDay, FALSE)},
        startTime : {Text(600, FALSE)}, endTime : {Text(660, FALSE)}]
  \cup [token : {Text(1, FALSE)}, block : {""},
        date : {Text(Absent, FALSE), Text(BadText, FALSE)},
        startTime : {Text(600, FALSE)}, endTime : {Text(660, FALSE)}]
  \cup [token : {Text(1, FALSE)}, block : {""},
        date : {Text(FirstBookingDay, FALSE)},
        startTime : {Text(Absent, TRUE), Text(BadText, FALSE)},
        endTime : {Text(660, FALSE)}]
  \cup [token : {Text(1, FALSE)}, block : {""},
        date : {Text(FirstBookingDay, FALSE)},
        startTime : {Text(600, FALSE)},
        endTime : {Text(Absent, FALSE), Text(BadText, TRUE)}]

InitRequestV11b ==
  /\ tz = 0
  /\ now = At(FirstBookingDay, 8, 0)
  /\ apiKey = TRUE
  /\ \E t \in TokenDocsV11b :
       appointments = [i \in 1..MaxApptsB |-> IF i <= 2 THEN t ELSE NoDoc]
  /\ calendarBlocks = <<>>
  /\ geocodeCache = {}
  /\ distanceCache = {}
  /\ resp = NoResp
  /\ InitSide

\* the document limit(1) may return for a token: any of the snapshot
LimitOne(snap) == IF snap = {} THEN {0} ELSE snap

AnswerRequestV11b(body, r) ==
  /\ Len(r.changeRequests) <= MaxChangeRequests
  /\ changeRequests' = r.changeRequests
  /\ resp' = [status |-> r.status, updated |-> r.updated, body |-> body,
              kind |-> "appointment-request"]
  /\ UNCHANGED <<inFlight, onlineAppointmentRequests, settings, externalServices, fetchLog,
                 tz, now, apiKey, appointments, calendarBlocks, geocodeCache,
                 distanceCache>>

AppointmentRequestV11b ==
  \E body \in RequestBodiesV11b :
    \E docId \in LimitOne(existingSnapV11b(cleanText(body.token).text)) :
      AnswerRequestV11b(body, appointmentRequestV11b(body, docId))

\* the agenda application, which listens to "changeRequests", takes a request
\* up ("open") or settles it ("approved")
ResolveChangeRequest ==
  \E k \in 1..Len(changeRequests), st \in {"open", "approved"} :
    /\ changeRequests[k].status \in {"pending", "open"}
    /\ changeRequests[k].status # st
    /\ changeRequests' = [changeRequests EXCEPT ![k].status = st]
    /\ resp' = NoResp
    /\ UNCHANGED <<inFlight, onlineAppointmentRequests, settings, externalServices, fetchLog,
                   tz, now, apiKey, appointments, calendarBlocks, geocodeCache,
                   distanceCache>>

NextRequestV11b ==
  \/ AppointmentRequestV11b
  \/ ResolveChangeRequest

SpecRequestV11b == InitRequestV11b /\ [][NextRequestV11b]_vars

(***************************************************************************)
(* Properties of POST /appointment-request of part_002.                    *)
(***************************************************************************)
\* the request just answered was an accepted submission
RequestAccepted == resp.status = 200 /\ resp.kind = "appointment-request"
\* the documents of a token whose status is pending or open
LiveRequestsOf(token) ==
  {k \in 1..Len(changeRequests) :
     /\ changeRequests[k].token = token
     /\ changeRequests[k].status = "pending" \/ changeRequests[k].status = "open"}

\* C14: an accepted submission for a token that has no pending or open
\* changeRequest adds exactly one document to "changeRequests", with status
\* "pending" and the token, date, startTime and endTime of the submission
\* (their surrounding white space removed), and leaves every other document
\* as it was.
C14_AcceptedSubmissionAddsOnePending ==
  [][(/\ resp'.status = 200
      /\ resp'.kind = "appointment-request"
      /\ LiveRequestsOf(cleanText(resp'.body.token).text) = {})
     => (/\ Len(changeRequests') = Len(changeRequests) + 1
         /\ SubSeq(changeRequests', 1, Len(changeRequests)) = changeRequests
         /\ changeRequests'[Len(changeRequests')].status = "pending"
         /\ changeRequests'[Len(changeRequests')].token = cleanText(resp'.body.token).text
         /\ changeRequests'[Len(changeRequests')].requestedDate
              = cleanText(resp'.body.date).text
         /\ changeRequests'[Len(changeRequests')].requestedStartTime
              = cleanText(resp'.body.startTime).text
         /\ changeRequests'[Len(changeRequests')].requestedEndTime
              = cleanText(resp'.body.endTime).text)]_vars

\* a submission was accepted and filed next to the request of another token
C14_Witness ==
  /\ RequestAccepted
  /\ ~resp.updated
  /\ Len(changeRequests) >= 2
  /\ changeRequests[Len(changeRequests)].token = cleanText(resp.body.token).text
  /\ changeRequests[Len(changeRequests)].status = "pending"
  /\ changeRequests[1].token # cleanText(resp.body.token).text

\* no token has two requests that are pending or open
AtMostOneLiveRequestPerToken ==
  \A token \in 1..MaxApptsB : Cardinality(LiveRequestsOf(token)) <= 1

\* an accepted submission for a token that has a pending or open request
\* rewrites that request and touches no other document
RepeatedSubmissionUpdatesInPlace ==
  [][(/\ resp'.status = 200
      /\ resp'.kind = "appointment-request"
      /\ LiveRequestsOf(cleanText(resp'.body.token).text) # {})
     => (/\ resp'.updated
         /\ Len(changeRequests') = Len(changeRequests)
         /\ \A k \in 1..Len(changeRequests) :
              \/ changeRequests'[k] = changeRequests[k]
              \/ /\ k \in LiveRequestsOf(cleanText(resp'.body.token).text)
                 /\ changeRequests'[k].requestedDate = cleanText(resp'.body.date).text
                 /\ changeRequests'[k].status = "pending")]_vars

\* C15: starting from an empty collection, after any sequence of submissions
\* every token has at most one changeRequest whose status is pending or
\* open, and a submission for a token that has one rewrites that document
\* instead of adding another.
C15_OneLiveRequestPerToken ==
  []AtMostOneLiveRequestPerToken /\ RepeatedSubmissionUpdatesInPlace

\* a repeated submission was answered {updated: true} and changed the day of
\* the token's one pending request
C15_Witness ==
  /\ RequestAccepted
  /\ resp.updated
  /\ Cardinality(LiveRequestsOf(cleanText(resp.body.token).text)) = 1
  /\ \E k \in LiveRequestsOf(cleanText(resp.body.token).text) :
       /\ changeRequests[k].updatedAt # Absent
       /\ changeRequests[k].requestedDate = cleanText(resp.body.date).text
  /\ Len(changeRequests) >= 2

(***************************************************************************)
(* V11 of src/server.js: POST /appointment-request, next to the            *)
(* availability handler of the same file.                                  *)
(***************************************************************************)
\* the two writes of the handler: the merge into the client's document and
\* the new changeRequest
storeRequestV11(token, block, date, startTime, endTime) ==
  [status |-> 200,
   appointments |->
     [appointments EXCEPT ![token] =
        [@ EXCEPT !.requestedBlock = block,
                  !.requestedDate = toSpainDate(date * MinutesPerDay),
                  !.requestedStartTime = startTime,
                  !.requestedEndTime = endTime,
                  !.updatedAt = now]],
   changeRequests |->
     Append(changeRequests,
            [token |-> token, status |-> "pending", requestedBlock |-> block,
             requestedDate |-> toSpainDate(date * MinutesPerDay),
             requestedDateString |-> date,
             requestedStartTime |-> startTime, requestedEndTime |-> endTime,
             createdAt |-> now])]

RejectedV11(status) ==
  [status |-> status, appointments |-> appointments, changeRequests |-> changeRequests]

\* a handler that files the changeRequest before it looks the token up
appointmentRequestFilesFirst(body) ==
  IF \/ IsEmptyText(trim(body.token))
     \/ IsEmptyText(trim(body.date))
     \/ IsEmptyText(trim(body.startTime))
     \/ IsEmptyText(trim(body.endTime))
    THEN RejectedV11(400)
  ELSE IF ~appointments[trim(body.token).text].exists
    THEN [status |-> 404, appointments |-> appointments,
          changeRequests |->
            Append(changeRequests,
                   [token |-> trim(body.token).text, status |-> "pending",
                    requestedBlock |-> normalizeBlock(body.block),
                    requestedDate |-> Absent,
                    requestedDateString |-> trim(body.date).text,
                    requestedStartTime |-> trim(body.startTime).text,
                    requestedEndTime |-> trim(body.endTime).text,
                    createdAt |-> now])]
  ELSE IF trim(body.date).text = BadText THEN RejectedV11(500)
  ELSE storeRequestV11(trim(body.token).text, normalizeBlock(body.block),
                       trim(body.date).text, trim(body.startTime).text,
                       trim(body.endTime).text)

\* app.post("/appointment-request") of src/server.js; Timestamp.fromDate
\* throws on the Invalid Date of a malformed date.  body.wfail names the
\* write the store rejects during this request: "set" (apRef.set), "add"
\* (the changeRequests add) or "none".
appointmentRequestV11(body) ==
  IF \/ IsEmptyText(trim(body.token))
     \/ IsEmptyText(trim(body.date))
     \/ IsEmptyText(trim(body.startTime))
     \/ IsEmptyText(trim(body.endTime))
    THEN RejectedV11(400)
  ELSE IF ~appointments[trim(body.token).text].exists THEN RejectedV11(404)
  ELSE IF trim(body.date).text = BadText THEN RejectedV11(500)
  ELSE IF body.wfail = "set" THEN RejectedV11(500)
  ELSE IF body.wfail = "add"
    THEN [storeRequestV11(trim(body.token).text, normalizeBlock(body.block),
                          trim(body.date).text, trim(body.startTime).text,
                          trim(body.endTime).text)
            EXCEPT !.status = 500, !.changeRequests = changeRequests]
  ELSE storeRequestV11(trim(body.token).text, normalizeBlock(body.block),
                       trim(body.date).text, trim(body.startTime).text,
                       trim(body.endTime).text)

(***************************************************************************)
(* The bounded world of SpecRequestV11: one client, a token nobody holds.  *)
(***************************************************************************)
RequestBodiesV11 ==
  [token : {Text(1, FALSE), Text(1, TRUE), Text(2, FALSE)}, block : {""},
   date : {Text(FirstBookingDay, FALSE)},
   startTime : {Text(600, FALSE)}, endTime : {Text(660, TRUE)}, wfail : {"none"}]
  \cup [token : {Text(Absent, FALSE), Text(Absent, TRUE)}, block : {"tarde"},
        date : {Text(FirstBookingDay, FALSE)},
        startTime : {Text(1020, FALSE)}, endTime : {Text(1080, FALSE)},
        wfail : {"none"}]
  \cup [token : {Text(1, FALSE), Text(2, FALSE)}, block : {""},
        date : {Text(Absent, TRUE), Text(BadText, FALSE)},
        startTime : {Text(600, FALSE)}, endTime : {Text(660, FALSE)},
        wfail : {"none"}]
  \cup [token : {Text(1, FALSE)}, block : {""},
        date : {Text(FirstBookingDay + 1, FALSE)},
        startTime : {Text(Absent, FALSE), Text(BadText, FALSE)},
        endTime : {Text(660, FALSE)}, wfail : {"none"}]
  \cup [token : {Text(2, FALSE)}, block : {""},
        date : {Text(FirstBookingDay, FALSE)},
        startTime : {Text(600, FALSE)}, endTime : {Text(Absent, TRUE)},
        wfail : {"none"}]
  \* the store rejects a write of the handler
  \cup [token : {Text(1, FALSE)}, block : {""},
        date : {Text(FirstBookingDay + 1, FALSE)},
        startTime : {Text(660, FALSE)}, endTime : {Text(720, FALSE)},
        wfail : {"set", "add"}]

\* the availability requests of this world
AvailabilityBodiesV11 ==
  [token : 0..MaxAppts, block : {"morning"}, rangeDays : {2}, qfail : {0}, geo : {"ok"}]

InitRequestV11 ==
  /\ tz \in TzChoices
  /\ now = At(FirstBookingDay, 8, 0)
  /\ apiKey = FALSE
  /\ \E t \in TokenDocsV11 :
       appointments = [i \in 1..MaxAppts |-> IF i = 1 THEN t ELSE NoDoc]
  /\ calendarBlocks = <<>>
  /\ geocodeCache = {}
  /\ distanceCache = {}
  /\ resp = NoResp
  /\ InitSide

AnswerRequestV11(body, r) ==
  /\ Len(r.changeRequests) <= MaxChangeRequests
  /\ appointments' = r.appointments
  /\ changeRequests' = r.changeRequests
  /\ resp' = [status |-> r.status, body |-> body, kind |-> "appointment-request"]
  /\ UNCHANGED <<inFlight, onlineAppointmentRequests, settings, externalServices, fetchLog,
                 tz, now, apiKey, calendarBlocks, geocodeCache, distanceCache>>

AppointmentRequestV11 ==
  \E body \in RequestBodiesV11 : AnswerRequestV11(body, appointmentRequestV11(body))

AvailabilitySmartRequestV11 ==
  \E body \in AvailabilityBodiesV11 : AnswerV11(body, availabilitySmartV11(body))

NextRequestV11 ==
  \/ AppointmentRequestV11
  \/ AvailabilitySmartRequestV11
  \/ Tick

SpecRequestV11 == InitRequestV11 /\ [][NextRequestV11]_vars

(***************************************************************************)
(* Properties of the validation of the two V11 handlers.                   *)
(***************************************************************************)
AvailabilityAnswered(r) == r.status # 0 /\ "days" \in DOMAIN r
RequestAnswered(r) == r.status # 0 /\ "kind" \in DOMAIN r
\* a required field of a submission is missing or blank
LacksField(body) ==
  \E f \in {"token", "date", "startTime", "endTime"} : body[f].text = Absent
\* the documents of every collection
StoreV11 ==
  <<appointments, changeRequests, onlineAppointmentRequests, calendarBlocks,
    settings, externalServices>>

\* C17: availability-smart answers 400 to a missing or blank token and 404 to
\* a token no document has; appointment-request answers 400 when token, date,
\* startTime or endTime is missing or blank and 404 when all four are there
\* and no document has the token; a request answered 400 or 404 leaves every
\* collection as it was.
C17_RejectedRequestsWriteNothing ==
  [][/\ AvailabilityAnswered(resp') =>
          /\ resp'.body.token = 0 => resp'.status = 400
          /\ (resp'.body.token # 0 /\ ~appointments[resp'.body.token].exists)
               => resp'.status = 404
     /\ RequestAnswered(resp') =>
          /\ LacksField(resp'.body) => resp'.status = 400
          /\ (~LacksField(resp'.body) /\ ~appointments[resp'.body.token.text].exists)
               => resp'.status = 404
     /\ resp'.status \in {400, 404} => StoreV11' = StoreV11]_vars

\* a submission with an unknown token was answered 404 after another one had
\* been accepted
C17_Witness ==
  /\ RequestAnswered(resp)
  /\ resp.status = 404
  /\ changeRequests # <<>>
  /\ appointments[1].requestedDate # Absent

\* a blank token was answered 400
C17_WitnessBlank ==
  /\ RequestAnswered(resp)
  /\ resp.status = 400
  /\ resp.body.token = Text(Absent, TRUE)

(***************************************************************************)
(* V22 of src/unnamed/part_003: POST /appointment-request.                 *)
(*                                                                         *)
(* A body: token (a document id, 0 when missing), isoStart (slot.isoStart  *)
(* as the instant it names, Absent when there is no slot, BadText when the *)
(* string is no date), date (a day index or Absent) and startTime (a       *)
(* minute of the day or Absent).                                           *)
(***************************************************************************)
\* step 1 of the handler: the requested instant, Absent for null or NaN
requestedDateV22(body) ==
  IF body.isoStart # Absent
    THEN (IF body.isoStart = BadText THEN Absent ELSE body.isoStart)
  ELSE IF body.date # Absent /\ body.startTime # Absent
    THEN toSpainDate(body.date * MinutesPerDay + body.startTime)
  ELSE Absent

\* step 2: originalDate is the date of the token's document, when there is one
originalDateV22(token) ==
  IF token # 0 /\ appointments[token].exists THEN appointments[token].date ELSE Absent

\* app.post("/appointment-request") of V22
appointmentRequestV22(body) ==
  IF requestedDateV22(body) = Absent
    THEN [status |-> 400, onlineAppointmentRequests |-> onlineAppointmentRequests]
  ELSE [status |-> 200,
        onlineAppointmentRequests |->
          Append(onlineAppointmentRequests,
                 [appointmentId |-> body.token, originalDate |-> originalDateV22(body.token),
                  requestedDate |-> requestedDateV22(body), status |-> "pending",
                  createdAt |-> now, token |-> body.token, source |-> "web_portal"])]

(***************************************************************************)
(* The bounded world of SpecRequestV22: document 1 is a client's, no       *)
(* document has the id 2.                                                  *)
(***************************************************************************)
MaxOnlineRequests == 2

RequestBodiesV22 ==
  [token : 0..2, isoStart : {Absent}, date : {FirstBookingDay},
   startTime : {600, 720}]
  \cup [token : 0..2, isoStart : {At(FirstBookingDay + 1, 11, 0), BadText},
        date : {Absent}, startTime : {Absent}]
  \cup [token : {1}, isoStart : {Absent}, date : {Absent, FirstBookingDay},
        startTime : {Absent}]

InitRequestV22 ==
  /\ tz \in TzChoices
  /\ now = At(FirstBookingDay, 8, 0)
  /\ apiKey = FALSE
  /\ appointments = [i \in 1..2 |->
                       IF i = 1 THEN DocV22(At(FirstBookingDay, 10, 0), 60, 2) ELSE NoDoc]
  /\ calendarBlocks = [i \in 1..MaxBlocksE |-> NoDoc]
  /\ geocodeCache = {}
  /\ distanceCache = {}
  /\ resp = NoResp
  /\ InitSide

AnswerRequestV22(body, r) ==
  /\ Len(r.onlineAppointmentRequests) <= MaxOnlineRequests
  /\ onlineAppointmentRequests' = r.onlineAppointmentRequests
  /\ resp' = [status |-> r.status, body |-> body, kind |-> "appointment-request"]
  /\ UNCHANGED <<inFlight, changeRequests, settings, externalServices, fetchLog,
                 tz, now, apiKey, appointments, calendarBlocks, geocodeCache,
                 distanceCache>>

AppointmentRequestV22 ==
  \E body \in RequestBodiesV22 : AnswerRequestV22(body, appointmentRequestV22(body))

NextRequestV22 ==
  \/ AppointmentRequestV22
  \/ Tick

SpecRequestV22 == InitRequestV22 /\ [][NextRequestV22]_vars

(***************************************************************************)
(* Properties of POST /appointment-request of V22.                         *)
(***************************************************************************)
\* C18: every document of "onlineAppointmentRequests" carries a token that
\* is the id of an existing "appointments" document, and a submission whose
\* token is missing or unknown is answered 400 or 404.
C18_EveryRequestCarriesAKnownToken ==
  /\ \A k \in 1..Len(onlineAppointmentRequests) :
       /\ onlineAppointmentRequests[k].token # 0
       /\ appointments[onlineAppointmentRequests[k].token].exists
  /\ (RequestAnswered(resp)
      /\ (resp.body.token = 0 \/ ~appointments[resp.body.token].exists))
       => resp.status \in {400, 404}

\* what the handler does guarantee: every stored request names an instant
C18_EveryRequestHasADate ==
  \A k \in 1..Len(onlineAppointmentRequests) :
    onlineAppointmentRequests[k].requestedDate # Absent

(***************************************************************************)
(* V10, src/server.js lines 585-1111: the administration routes.           *)
(*                                                                         *)
(* The Authorization header is "" when absent.  A token is good when       *)
(* jwt.verify accepts it: signed with ADMIN_JWT_SECRET and not expired.    *)
(* "settings", "externalServices" and "calendarBlocks" map a document id   *)
(* to NoDoc or to the document.  Every handler yields the answer, the number of store  *)
(* reads and writes it made, and the three collections as it leaves them.  *)
(***************************************************************************)
AuthHeaders == {"", "Bearer bad", "Bearer good", "good"}

\* authHeader.split(" ")[1]; "" stands for undefined
bearerTokenV10(authHeader) ==
  IF authHeader = "Bearer bad" THEN "bad"
  ELSE IF authHeader = "Bearer good" THEN "good"
  ELSE ""

jwtVerify(token) == token = "good"

\* a middleware that lets any presented header through
verifyAdminAnyHeader(authHeader) ==
  IF authHeader = "" THEN 401 ELSE 0

\* verifyAdmin: the status it answers, 0 when it calls next()
verifyAdmin(authHeader) ==
  IF authHeader = "" THEN 401
  ELSE IF jwtVerify(bearerTokenV10(authHeader)) THEN 0
  ELSE 403

outcomeV10(status, reads, writes, s, x, b) ==
  [status |-> status, reads |-> reads, writes |-> writes,
   settings |-> s, externalServices |-> x, calendarBlocks |-> b]

rejectedV10(status) ==
  outcomeV10(status, 0, 0, settings, externalServices, calendarBlocks)

\* app.post("/admin/login")
adminLoginV10(body) ==
  LET doc == settings["admin_access"]
      validUser == IF doc.exists THEN doc.user ELSE "admin"
      validPass == IF doc.exists THEN doc.pass ELSE "admin"
  IN  outcomeV10(IF body.user = validUser /\ body.pass = validPass THEN 200 ELSE 401,
                 1, 0, settings, externalServices, calendarBlocks)

\* app.post("/admin/update-root-access", verifyAdmin, ...)
updateRootAccessV10(body) ==
  IF verifyAdmin(body.auth) # 0 THEN rejectedV10(verifyAdmin(body.auth))
  ELSE IF body.user = "" \/ body.pass = "" THEN rejectedV10(400)
  ELSE outcomeV10(200, 0, 1,
         [settings EXCEPT !["admin_access"] = [exists |-> TRUE, user |-> body.user, pass |-> body.pass]],
         externalServices, calendarBlocks)

\* app.get("/admin/config/homeserve", verifyAdmin, ...)
getConfigHomeserveV10(body) ==
  IF verifyAdmin(body.auth) # 0 THEN rejectedV10(verifyAdmin(body.auth))
  ELSE outcomeV10(200, 1, 0, settings, externalServices, calendarBlocks)

\* app.post("/admin/config/homeserve", verifyAdmin, ...)
postConfigHomeserveV10(body) ==
  IF verifyAdmin(body.auth) # 0 THEN rejectedV10(verifyAdmin(body.auth))
  ELSE outcomeV10(200, 0, 1,
         [settings EXCEPT !["homeserve"] = [exists |-> TRUE, user |-> body.user, pass |-> body.pass]],
         externalServices, calendarBlocks)

ServiceIdsV10 == {i \in DOMAIN externalServices : externalServices[i].exists}

\* app.get("/admin/services/homeserve", verifyAdmin, ...): an empty list is
\* seeded with one example service and read again
getServicesHomeserveV10(body) ==
  IF verifyAdmin(body.auth) # 0 THEN rejectedV10(verifyAdmin(body.auth))
  ELSE IF ServiceIdsV10 = {}
    THEN outcomeV10(200, 2, 1, settings,
           [externalServices EXCEPT ![1] =
              [exists |-> TRUE, provider |-> "homeserve",
               client |-> "Cliente Ejemplo 1", address |-> "Calle Prueba, 1",
               status |-> "pending"]],
           calendarBlocks)
  ELSE outcomeV10(200, 1, 0, settings, externalServices, calendarBlocks)

\* app.put("/admin/services/homeserve/:id", verifyAdmin, ...): update() of a
\* document that does not exist throws
putServiceHomeserveV10(body) ==
  IF verifyAdmin(body.auth) # 0 THEN rejectedV10(verifyAdmin(body.auth))
  ELSE IF ~externalServices[body.id].exists
    THEN outcomeV10(500, 0, 1, settings, externalServices, calendarBlocks)
  ELSE outcomeV10(200, 0, 1, settings,
         [externalServices EXCEPT ![body.id].client = body.user,
                                  ![body.id].address = body.pass],
         calendarBlocks)

\* app.post("/admin/services/homeserve/delete", verifyAdmin, ...)
deleteServicesHomeserveV10(body) ==
  IF verifyAdmin(body.auth) # 0 THEN rejectedV10(verifyAdmin(body.auth))
  ELSE IF body.ids = {} THEN rejectedV10(400)
  ELSE outcomeV10(200, 0, 1, settings,
         [i \in DOMAIN externalServices |->
            IF i \in body.ids THEN NoDoc ELSE externalServices[i]],
         calendarBlocks)

\* buildDayKeysBetween of V10: the server-local days from startDate's to
\* endDate's
buildDayKeysBetweenV10(startDate, endDate) == DayOf(startDate)..DayOf(endDate)

newBlockV10(s, e, allDay, city) ==
  [exists |-> TRUE, start |-> toSpainDate(s), end |-> toSpainDate(e),
   allDay |-> allDay, reason |-> "Bloqueo", city |-> city,
   dayKeys |-> buildDayKeysBetweenV10(s, e)]

\* app.get("/admin/blocks", ...)
getAdminBlocksV10(body) ==
  outcomeV10(200, 1, 0, settings, externalServices, calendarBlocks)

\* app.post("/admin/blocks", ...); the new document takes the first free id
postAdminBlocksV10(body) ==
  LET s == IF body.allDay THEN setTime(body.startISO, 0, 0) ELSE body.startISO
      e == IF body.allDay THEN setTime(body.endISO, 23, 59) ELSE body.endISO
      id == CHOOSE i \in DOMAIN calendarBlocks :
              /\ ~calendarBlocks[i].exists
              /\ \A j \in DOMAIN calendarBlocks : j < i => calendarBlocks[j].exists
  IN  outcomeV10(200, 0, 1, settings, externalServices,
        [calendarBlocks EXCEPT ![id] = newBlockV10(s, e, body.allDay, body.city)])

\* app.delete("/admin/blocks/:id", ...)
deleteAdminBlockV10(body) ==
  outcomeV10(200, 0, 1, settings, externalServices,
    [calendarBlocks EXCEPT ![body.id] = NoDoc])

(***************************************************************************)
(* The world of the V10 administration routes.                             *)
(***************************************************************************)
MaxServices == 2
MaxBlocksA == 2

CredentialsV10 == {<<"admin", "admin">>, <<"root", "s3cret">>, <<"", "x">>}

AdminBodiesV10 ==
  {[auth |-> h, user |-> c[1], pass |-> c[2], id |-> id]
     : h \in AuthHeaders, c \in CredentialsV10, id \in 1..MaxServices}

DeleteBodiesV10 ==
  {[auth |-> h, ids |-> ids] : h \in AuthHeaders, ids \in SUBSET (1..MaxServices)}

BlockBodiesV10 ==
  {[auth |-> h, id |-> 1, startISO |-> b.startISO, endISO |-> b.endISO,
    allDay |-> b.allDay, city |-> b.city] : h \in AuthHeaders, b \in BlockBodiesV5}

RobotServiceV10 ==
  [exists |-> TRUE, provider |-> "homeserve", client |-> "Ana",
   address |-> "calle near", status |-> "pending"]

InitAdminV10 ==
  /\ tz \in TzChoices
  /\ now = At(FirstBookingDay, 8, 0)
  /\ apiKey = TRUE
  /\ appointments = <<>>
  /\ calendarBlocks = [i \in 1..MaxBlocksA |-> NoDoc]
  /\ geocodeCache = {}
  /\ distanceCache = {}
  /\ changeRequests = <<>>
  /\ onlineAppointmentRequests = <<>>
  /\ settings = [id \in {"admin_access", "homeserve"} |-> NoDoc]
  /\ externalServices \in
       {[i \in 1..MaxServices |-> NoDoc],
        [i \in 1..MaxServices |-> IF i = 1 THEN RobotServiceV10 ELSE NoDoc]}
  /\ fetchLog = <<>>
  /\ inFlight = <<>>
  /\ resp = NoResp

AnswerAdminV10(route, body, r) ==
  /\ resp' = [status |-> r.status, route |-> route, auth |-> body.auth,
              reads |-> r.reads, writes |-> r.writes]
  /\ settings' = r.settings
  /\ externalServices' = r.externalServices
  /\ calendarBlocks' = r.calendarBlocks
  /\ UNCHANGED <<inFlight, tz, now, apiKey, appointments, geocodeCache, distanceCache,
                 changeRequests, onlineAppointmentRequests, fetchLog>>

AdminLoginV10 ==
  \E body \in AdminBodiesV10 :
    body.auth = "" /\ body.id = 1 /\ AnswerAdminV10("login", body, adminLoginV10(body))

UpdateRootAccessV10 ==
  \E body \in AdminBodiesV10 :
    body.id = 1 /\ AnswerAdminV10("update-root-access", body, updateRootAccessV10(body))

GetConfigHomeserveV10 ==
  \E body \in AdminBodiesV10 :
    /\ body.id = 1 /\ body.user = "admin"
    /\ AnswerAdminV10("get config", body, getConfigHomeserveV10(body))

PostConfigHomeserveV10 ==
  \E body \in AdminBodiesV10 :
    /\ body.id = 1 /\ body.user # ""
    /\ AnswerAdminV10("post config", body, postConfigHomeserveV10(body))

GetServicesHomeserveV10 ==
  \E body \in AdminBodiesV10 :
    /\ body.id = 1 /\ body.user = "admin"
    /\ AnswerAdminV10("get services", body, getServicesHomeserveV10(body))

PutServiceHomeserveV10 ==
  \E body \in AdminBodiesV10 :
    /\ body.user # ""
    /\ AnswerAdminV10("put service", body, putServiceHomeserveV10(body))

DeleteServicesHomeserveV10 ==
  \E body \in DeleteBodiesV10 :
    AnswerAdminV10("delete services", body, deleteServicesHomeserveV10(body))

GetAdminBlocksV10 ==
  \E body \in BlockBodiesV10 :
    /\ body.allDay
    /\ AnswerAdminV10("get blocks", body, getAdminBlocksV10(body))

PostAdminBlocksV10 ==
  \E body \in BlockBodiesV10 :
    /\ \E i \in DOMAIN calendarBlocks : ~calendarBlocks[i].exists
    /\ AnswerAdminV10("post blocks", body, postAdminBlocksV10(body))

DeleteAdminBlockV10 ==
  \E body \in BlockBodiesV10, id \in 1..MaxBlocksA :
    /\ body.allDay
    /\ AnswerAdminV10("delete block", body, deleteAdminBlockV10([body EXCEPT !.id = id]))

NextAdminV10 ==
  \/ AdminLoginV10
  \/ UpdateRootAccessV10
  \/ GetConfigHomeserveV10
  \/ PostConfigHomeserveV10
  \/ GetServicesHomeserveV10
  \/ PutServiceHomeserveV10
  \/ DeleteServicesHomeserveV10
  \/ GetAdminBlocksV10
  \/ PostAdminBlocksV10
  \/ DeleteAdminBlockV10

SpecAdminV10 == InitAdminV10 /\ [][NextAdminV10]_vars

(***************************************************************************)
(* Properties of the V10 administration routes.                            *)
(***************************************************************************)
AdminAnswered(r) == "route" \in DOMAIN r

PresentsNoGoodCredential(r) == verifyAdmin(r.auth) # 0

VerifiedRoutesV10 ==
  {"update-root-access", "get config", "post config", "get services",
   "put service", "delete services"}

\* C19: every /admin/* route other than /admin/login answers 401 to a request
\* without a bearer credential and 403 to one with an invalid credential, and
\* in both cases reads and writes nothing in the store.
C19_AdminRoutesRequireCredential ==
  (AdminAnswered(resp) /\ resp.route # "login" /\ PresentsNoGoodCredential(resp))
    => /\ resp.status = (IF resp.auth = "" THEN 401 ELSE 403)
       /\ resp.reads = 0
       /\ resp.writes = 0

\* the routes registered with verifyAdmin do keep that contract
C19_VerifiedRoutesRequireCredential ==
  (AdminAnswered(resp) /\ resp.route \in VerifiedRoutesV10
     /\ PresentsNoGoodCredential(resp))
    => /\ resp.status = (IF resp.auth = "" THEN 401 ELSE 403)
       /\ resp.reads = 0
       /\ resp.writes = 0

(***************************************************************************)
(* V5, src/unnamed/part_000: the geo utility called on its own.            *)
(*                                                                         *)
(* fetchLog records every request sent to the external services: the key   *)
(* asked for and the value the caller got back.  net is the outcome of the *)
(* request of this call: "ok", or "fail" when fetch rejects or the answer  *)
(* is not OK; an address the service does not know has zero results.       *)
(***************************************************************************)
\* lines 126-129: no cache hit and a key configured, so fetch is called
geocodeSendsRequest(full) == full \notin geocodeCache /\ apiKey

\* lines 140-145: the points differ, no cache hit and a key configured
travelSendsRequest(origin, destination) ==
  /\ origin # destination
  /\ <<origin, destination>> \notin distanceCache
  /\ apiKey

MaxFetches == 3

AddressesGeo ==
  {fullAddress("calle near", "Algeciras"), fullAddress("calle far", "Tarifa"),
   fullAddress("calle nowhere", "")}

PointsGeo == {HOME_ALGECIRAS, 2, 9}

NetOutcomes == {"ok", "fail"}

InitGeo ==
  /\ tz = 0
  /\ now = At(FirstBookingDay, 8, 0)
  /\ apiKey \in BOOLEAN
  /\ appointments = <<>>
  /\ calendarBlocks = <<>>
  /\ geocodeCache = {}
  /\ distanceCache = {}
  /\ resp = NoResp
  /\ InitSide

AnswerGeocode(full, sent, r) ==
  /\ sent => Len(fetchLog) < MaxFetches
  /\ resp' = [status |-> 200, lookup |-> "geocode", key |-> full,
              value |-> r.lat, sent |-> sent]
  /\ geocodeCache' = geocodeCache \cup r.fetched
  /\ fetchLog' = IF sent THEN Append(fetchLog, [lookup |-> "geocode", key |-> full, value |-> r.lat])
                 ELSE fetchLog
  /\ UNCHANGED <<inFlight, tz, now, apiKey, appointments, calendarBlocks, distanceCache,
                 changeRequests, onlineAppointmentRequests, settings, externalServices>>

GeocodeAddress ==
  \E full \in AddressesGeo, net \in NetOutcomes :
    AnswerGeocode(full, geocodeSendsRequest(full), geocodeAddressV5(full, net))

AnswerTravel(k, sent, r) ==
  /\ sent => Len(fetchLog) < MaxFetches
  /\ resp' = [status |-> 200, lookup |-> "travel", key |-> k,
              value |-> r.min, sent |-> sent]
  /\ distanceCache' = distanceCache \cup r.fetched
  /\ fetchLog' = IF sent THEN Append(fetchLog, [lookup |-> "travel", key |-> k, value |-> r.min])
                 ELSE fetchLog
  /\ UNCHANGED <<inFlight, tz, now, apiKey, appointments, calendarBlocks, geocodeCache,
                 changeRequests, onlineAppointmentRequests, settings, externalServices>>

GetTravelTimeMinutes ==
  \E origin \in PointsGeo, destination \in PointsGeo, net \in NetOutcomes :
    AnswerTravel(<<origin, destination>>, travelSendsRequest(origin, destination),
                 getTravelTimeMinutes(origin, destination, net))

NextGeo ==
  \/ GeocodeAddress
  \/ GetTravelTimeMinutes

SpecGeo == InitGeo /\ [][NextGeo]_vars

(***************************************************************************)
(* Properties of the geo utility.                                          *)
(***************************************************************************)
LookupAnswered(r) == "lookup" \in DOMAIN r

\* the two entries are about the same lookup of the same key
SameKey(a, b) == a.lookup = b.lookup /\ a.key = b.key

\* what a lookup answers when the service gave nothing
FallbackValue(lookup) == IF lookup = "geocode" THEN HOME_ALGECIRAS ELSE 20

\* C20: once one external request has been sent for a key, no later call
\* with that key sends another one, and every later call returns the value
\* the first request gave, whether it succeeded, had zero results or failed.
C20_EveryLookupIsMemoized ==
  /\ \A i, j \in 1..Len(fetchLog) :
       i < j => ~SameKey(fetchLog[i], fetchLog[j])
  /\ LookupAnswered(resp) =>
       \A i \in 1..Len(fetchLog) :
         SameKey(fetchLog[i], resp) => fetchLog[i].value = resp.value

\* what the caches do guarantee: only a lookup that gave nothing is sent again
C20_SuccessfulLookupsAreMemoized ==
  \A i, j \in 1..Len(fetchLog) :
    (i < j /\ SameKey(fetchLog[i], fetchLog[j]))
      => fetchLog[i].value = FallbackValue(fetchLog[i].lookup)

(***************************************************************************)
(* The world of SpecCityV11: the V11 availability handler of src/server.js *)
(* over an agenda of two visits that may share a day.                      *)
(***************************************************************************)
MaxApptsL == 3

BookingDocsCityV11 ==
  UNION {
    { \* 10:00-11:00 in the client's city, filed last
      [BookedV11(day) EXCEPT !.city = "Algeciras", !.createdAt = 3],
      \* 12:00-13:00 in the client's city in capitals
      [BookedV11(day) EXCEPT !.city = "ALGECIRAS", !.startTime = 720, !.endTime = 780,
                             !.createdAt = 2],
      \* 12:00-13:00 in another city
      [BookedV11(day) EXCEPT !.city = "Tarifa", !.startTime = 720, !.endTime = 780,
                             !.createdAt = 2],
      \* 11:00-12:00 in another city, filed first
      [BookedV11(day) EXCEPT !.city = "Tarifa", !.startTime = 660, !.endTime = 720,
                             !.createdAt = 1],
      \* 09:00-10:00 without a city, filed after every other
      [BookedV11(day) EXCEPT !.startTime = 540, !.endTime = 600, !.createdAt = 4]
    } : day \in FirstBookingDay..(FirstBookingDay + 1) }

RequestsCityV11 ==
  [token : {1}, block : {"", "afternoon"}, rangeDays : {1, 2}, qfail : {0, 1},
   geo : {"ok"}]

InitCityV11 ==
  /\ tz \in TzChoices
  /\ now = At(FirstBookingDay, 8, 0)
  /\ apiKey \in BOOLEAN
  /\ appointments =
       [i \in 1..MaxApptsL |->
          IF i = 1 THEN [BaseDoc EXCEPT !.city = "Algeciras", !.address = "calle near"]
          ELSE NoDoc]
  /\ calendarBlocks = <<>>
  /\ geocodeCache = {}
  /\ distanceCache = {}
  /\ resp = NoResp
  /\ InitSide

PutAppointmentCityV11 ==
  \E id \in 2..MaxApptsL, doc \in BookingDocsCityV11 :
    /\ ~appointments[id].exists
    /\ \A j \in 2..MaxApptsL : j < id => appointments[j].exists
    /\ appointments' = [appointments EXCEPT ![id] = doc]
    /\ resp' = NoResp
    /\ UNCHANGED <<sideState, tz, now, apiKey, calendarBlocks, geocodeCache, distanceCache>>

AvailabilitySmartCityV11 ==
  \E body \in RequestsCityV11 : AnswerV11(body, availabilitySmartV11(body))

NextCityV11 ==
  \/ PutAppointmentCityV11
  \/ AvailabilitySmartCityV11

SpecCityV11 == InitCityV11 /\ [][NextCityV11]_vars

(***************************************************************************)
(* The "same locality" rule of the V11 availability handler.               *)
(***************************************************************************)
\* the stored bookings that are busy on the day: not cancelled, with an
\* interval that starts on it
BusyOnDay(date) ==
  {i \in BookingIds :
     /\ ~IsCancelled(appointments[i])
     /\ extractIntervalAny(appointments[i]).ok
     /\ DayOf(extractIntervalAny(appointments[i]).start) = date}

\* the loader read every stored booking: its first query answered and every
\* document carries the createdAt it orders by
EveryBookingLoaded ==
  /\ resp.body.qfail = 0
  /\ \A i \in BookingIds : appointments[i].createdAt > 0

\* C25: when the client's document has a city, every busy booking with a
\* city on a returned day is in the client's city, letter case aside; a day
\* with a booking in another city is not returned, in whatever order the
\* bookings of the day were loaded.
C25_ReturnedDaysAreOfTheClientCity ==
  (Answered200 /\ EveryBookingLoaded /\ appointments[resp.body.token].city # "")
    => \A k \in 1..Len(resp.days) : \A i \in BusyOnDay(resp.days[k].date) :
         appointments[i].city # ""
           => toLowerCase(appointments[i].city)
                = toLowerCase(appointments[resp.body.token].city)

\* what the rule does guarantee: a returned day is never one whose busy
\* bookings with a city are all in another city
C25_NotEveryBookingElsewhere ==
  (Answered200 /\ EveryBookingLoaded /\ appointments[resp.body.token].city # "")
    => \A k \in 1..Len(resp.days) :
         \/ \A i \in BusyOnDay(resp.days[k].date) : appointments[i].city = ""
         \/ \E i \in BusyOnDay(resp.days[k].date) :
              /\ appointments[i].city # ""
              /\ toLowerCase(appointments[i].city)
                   = toLowerCase(appointments[resp.body.token].city)

(***************************************************************************)
(* Frame and failure properties of POST /appointment-request of            *)
(* src/server.js.                                                          *)
(***************************************************************************)
\* C23: a submission leaves every document of "appointments", the one of
\* its token included, as it was, and at most adds one document to
\* "changeRequests".
C23_SubmissionLeavesAppointmentsUnchanged ==
  [][RequestAnswered(resp') =>
       /\ appointments' = appointments
       /\ \/ changeRequests' = changeRequests
          \/ /\ Len(changeRequests') = Len(changeRequests) + 1
             /\ SubSeq(changeRequests', 1, Len(changeRequests)) = changeRequests]_vars

\* what the handler does guarantee: only the document of the token changes
C23_OnlyTheTokenDocumentChanges ==
  [][RequestAnswered(resp') =>
       \A i \in DOMAIN appointments :
         appointments'[i] # appointments[i] => i = resp'.body.token.text]_vars

\* C28: a submission answered 400, 404 or 500 leaves every collection as it
\* was; in particular the document of the token carries no requestedDate,
\* requestedStartTime or requestedEndTime of a submission for which no
\* changeRequest was created.
C28_ErrorAnswerLeavesStoreUntouched ==
  [][(RequestAnswered(resp') /\ resp'.status \in {400, 404, 500})
       => StoreV11' = StoreV11]_vars

\* what the handler does guarantee: a submission that fails before the first
\* write, or at it, changes nothing
C28_EarlyErrorLeavesStoreUntouched ==
  [][(RequestAnswered(resp') /\ resp'.status \in {400, 404, 500}
        /\ resp'.body.wfail # "add")
       => StoreV11' = StoreV11]_vars

(***************************************************************************)
(* The block of a V11 availability request (src/server.js).                *)
(***************************************************************************)
SlotsOfBlock(day, block) ==
  {j \in 1..Len(day.slots) :
     /\ day.slots[j].startTime >= SCHEDULE(block).startHour * 60
     /\ day.slots[j].endTime <= SCHEDULE(block).endHour * 60}

\* C22: a request without a block is answered with the slots of both blocks
\* (with no live booking stored, every returned day carries morning and
\* afternoon slots); a request for the morning or the afternoon is answered
\* with slots of that block only.
C22_OmittedBlockGivesBothBlocks ==
  Answered200 =>
    /\ (resp.body.block = "" /\ \A i \in BookingIds : IsCancelled(appointments[i]))
         => \A k \in 1..Len(resp.days) :
              /\ SlotsOfBlock(resp.days[k], "morning") # {}
              /\ SlotsOfBlock(resp.days[k], "afternoon") # {}
    /\ resp.body.block \in {"morning", "afternoon"}
         => \A k \in 1..Len(resp.days) :
              SlotsOfBlock(resp.days[k], resp.body.block) = 1..Len(resp.days[k].slots)

\* what normalizeBlock does: every answer holds the slots of one block, the
\* afternoon when it was asked for and the morning otherwise
C22_EveryAnswerIsOfOneBlock ==
  Answered200 =>
    \A k \in 1..Len(resp.days) :
      SlotsOfBlock(resp.days[k], normalizeBlock(resp.body.block))
        = 1..Len(resp.days[k].slots)

(***************************************************************************)
(* parseDurationMinutes of V5 (src/unnamed/part_000 lines 112-121) and of  *)
(* V10 (src/server.js lines 686-695), which are the same text.             *)
(*                                                                         *)
(* A value is [type, n, s]: type "undefined", "number" (the integer n) or  *)
(* "string" (the sequence of characters s).  A JavaScript number that may  *)
(* be NaN is [nan, n].                                                     *)
(***************************************************************************)
Num(n) == [n |-> n, nan |-> FALSE]
NaN == [n |-> 0, nan |-> TRUE]

Digits == {"0", "1", "2", "3", "4", "5", "6", "7", "8", "9"}

DigitValue(c) ==
  CASE c = "0" -> 0 [] c = "1" -> 1 [] c = "2" -> 2 [] c = "3" -> 3 [] c = "4" -> 4
    [] c = "5" -> 5 [] c = "6" -> 6 [] c = "7" -> 7 [] c = "8" -> 8 [] c = "9" -> 9

RECURSIVE trimStart(_)
trimStart(s) == IF s # <<>> /\ Head(s) = " " THEN trimStart(Tail(s)) ELSE s

RECURSIVE trimEnd(_)
trimEnd(s) ==
  IF s # <<>> /\ s[Len(s)] = " " THEN trimEnd(SubSeq(s, 1, Len(s) - 1)) ELSE s

\* String.prototype.trim
trimString(s) == trimEnd(trimStart(s))

\* s.includes(":")
includesColon(s) == \E i \in 1..Len(s) : s[i] = ":"

\* the index of the k-th ":" of s, Len(s) + 1 when there is none
RECURSIVE colonAt(_, _, _)
colonAt(s, k, from) ==
  IF from > Len(s) THEN Len(s) + 1
  ELSE IF s[from] = ":" THEN (IF k = 1 THEN from ELSE colonAt(s, k - 1, from + 1))
  ELSE colonAt(s, k, from + 1)

\* const [h, m] = s.split(":") for an s that includes ":"
splitH(s) == SubSeq(s, 1, colonAt(s, 1, 1) - 1)
splitM(s) == SubSeq(s, colonAt(s, 1, 1) + 1, colonAt(s, 2, 1) - 1)

\* the value of the leading digits of s after acc, and whether there was one
RECURSIVE digitsPrefix(_, _, _)
digitsPrefix(s, acc, any) ==
  IF s # <<>> /\ Head(s) \in Digits
    THEN digitsPrefix(Tail(s), 10 * acc + DigitValue(Head(s)), TRUE)
    ELSE [any |-> any, n |-> acc]

\* parseInt(s): leading blanks, an optional sign, then the leading digits
parseInt(s) ==
  LET t == trimStart(s)
      neg == t # <<>> /\ Head(t) = "-"
      d == digitsPrefix(IF t # <<>> /\ Head(t) \in {"-", "+"} THEN Tail(t) ELSE t,
                        0, FALSE)
  IN  IF ~d.any THEN NaN ELSE Num(IF neg THEN 0 - d.n ELSE d.n)

\* Math.round of n / 60
roundDiv60(n) == (n + 30) \div 60

parseDurationMinutes(value) ==
  IF value.type = "undefined" \/ (value.type = "number" /\ value.n = 0)
       \/ (value.type = "string" /\ value.s = <<>>)
    THEN Num(SERVICE_DEFAULT_MIN)
  ELSE IF value.type = "number"
    THEN Num(IF value.n > 1000 THEN roundDiv60(value.n) ELSE value.n)
  ELSE LET s == trimString(value.s)
           h == parseInt(splitH(s))
           m == parseInt(splitM(s))
       IN  IF includesColon(s)
             THEN (IF h.nan \/ m.nan THEN NaN ELSE Num(h.n * 60 + m.n))
           ELSE IF parseInt(s).nan \/ parseInt(s).n = 0 THEN Num(SERVICE_DEFAULT_MIN)
           ELSE parseInt(s)

(***************************************************************************)
(* The values a duration field is given.                                   *)
(***************************************************************************)
MaxLenDuration == 4

DurationChars == {"0", "1", "3", ":", "a", "-", " "}

RECURSIVE StringsUpTo(_)
StringsUpTo(n) ==
  IF n = 0 THEN {<<>>}
  ELSE StringsUpTo(n - 1)
         \cup {Append(t, c) : t \in {u \in StringsUpTo(n - 1) : Len(u) = n - 1},
                              c \in DurationChars}

DurationNumbers == {0 - 90, 0 - 1, 0, 1, 45, 60, 90, 1000, 1001, 1229, 1230, 5400}

DurationValues ==
  {[s |-> <<>>, type |-> "undefined", n |-> 0]}
    \cup {[s |-> <<>>, type |-> "number", n |-> n] : n \in DurationNumbers}
    \cup {[s |-> t, type |-> "string", n |-> 0] : t \in StringsUpTo(MaxLenDuration)}

InitDuration ==
  /\ tz = 0
  /\ now = At(FirstBookingDay, 8, 0)
  /\ apiKey = TRUE
  /\ appointments = <<>>
  /\ calendarBlocks = <<>>
  /\ geocodeCache = {}
  /\ distanceCache = {}
  /\ resp = NoResp
  /\ InitSide

AnswerDuration(value, r) ==
  /\ resp' = [status |-> 200, value |-> value, minutes |-> r]
  /\ UNCHANGED <<sideState, tz, now, apiKey, appointments, calendarBlocks,
                 geocodeCache, distanceCache>>

ParseDurationMinutes ==
  \E value \in DurationValues : AnswerDuration(value, parseDurationMinutes(value))

NextDuration == ParseDurationMinutes

SpecDuration == InitDuration /\ [][NextDuration]_vars

(***************************************************************************)
(* Properties of parseDurationMinutes.                                     *)
(***************************************************************************)
DurationAnswered(r) == "minutes" \in DOMAIN r

IsString(r, t) == r.value.type = "string" /\ r.value.s = t

\* C21: the result is always a positive whole number of minutes: a number
\* up to 1000 gives itself and a larger one its sixtieth rounded, an "H:MM"
\* string gives 60 * H + MM, and a missing, non-positive or unparseable
\* value gives the default 60.
C21_DurationIsPositiveMinutes ==
  DurationAnswered(resp) =>
    /\ ~resp.minutes.nan
    /\ resp.minutes.n > 0
    /\ (resp.value.type = "number" /\ resp.value.n > 1000)
         => resp.minutes.n = roundDiv60(resp.value.n)
    /\ (resp.value.type = "number" /\ resp.value.n > 0 /\ resp.value.n <= 1000)
         => resp.minutes.n = resp.value.n
    /\ (resp.value.type = "number" /\ resp.value.n <= 0)
         => resp.minutes.n = SERVICE_DEFAULT_MIN
    /\ resp.value.type = "undefined" => resp.minutes.n = SERVICE_DEFAULT_MIN
    /\ IsString(resp, <<"1", ":", "3", "0">>) => resp.minutes.n = 90
    /\ IsString(resp, <<"0", ":", "0", "0">>) => resp.minutes.n = SERVICE_DEFAULT_MIN
    /\ IsString(resp, <<"a", ":", "a">>) => resp.minutes.n = SERVICE_DEFAULT_MIN

\* what the parser does guarantee: a missing value, a positive number and a
\* string of digits are read as the claim says
C21_PlainValuesParse ==
  DurationAnswered(resp) =>
    /\ resp.value.type = "undefined" => resp.minutes = Num(SERVICE_DEFAULT_MIN)
    /\ (resp.value.type = "number" /\ resp.value.n > 0)
         => resp.minutes = Num(IF resp.value.n > 1000 THEN roundDiv60(resp.value.n)
                               ELSE resp.value.n)
    /\ IsString(resp, <<"1", ":", "3", "0">>) => resp.minutes = Num(90)
    /\ IsString(resp, <<"3", "0">>) => resp.minutes = Num(30)
    /\ IsString(resp, <<" ", "a", " ">>) => resp.minutes = Num(SERVICE_DEFAULT_MIN)

(***************************************************************************)
(* POST /appointment-request of part_002 (lines 1069-1138) with its awaits *)
(* as steps.  A call validates the body, reads the token's document and    *)
(* runs the pending-request query (lines 1078-1120), is suspended, and     *)
(* later writes with set or add (lines 1122-1133) using the document id    *)
(* its query returned.  Other calls run while it is suspended.             *)
(***************************************************************************)
MaxCalls == 2
MaxChangeRequestsC == 3

Idle == [pc |-> "idle"]

ConcurrentBodiesV11b ==
  [token : {Text(1, FALSE), Text(2, FALSE), Text(3, FALSE)}, block : {""},
   date : {Text(FirstBookingDay, FALSE), Text(FirstBookingDay + 1, FALSE)},
   startTime : {Text(600, FALSE)}, endTime : {Text(660, FALSE)}]
  \cup [token : {Text(1, FALSE)}, block : {""},
        date : {Text(FirstBookingDay, FALSE)},
        startTime : {Text(Absent, FALSE)}, endTime : {Text(660, FALSE)}]

InitConcurrentV11b ==
  /\ tz = 0
  /\ now = At(FirstBookingDay, 8, 0)
  /\ apiKey = TRUE
  /\ \E t \in TokenDocsV11b :
       appointments = [i \in 1..MaxApptsB |-> IF i <= 2 THEN t ELSE NoDoc]
  /\ calendarBlocks = <<>>
  /\ geocodeCache = {}
  /\ distanceCache = {}
  /\ changeRequests = <<>>
  /\ onlineAppointmentRequests = <<>>
  /\ settings = [id \in {"admin_access", "homeserve"} |-> NoDoc]
  /\ externalServices = <<>>
  /\ fetchLog = <<>>
  /\ inFlight = [c \in 1..MaxCalls |-> Idle]
  /\ resp = NoResp

CallsInFlight == {c \in DOMAIN inFlight : inFlight[c].pc # "idle"}

\* lines 1071-1120 of a call: r is what the handler would answer; a call
\* that is not rejected is suspended at the await of its write
QueryStepV11b(c, body, docId, r) ==
  /\ inFlight[c].pc = "idle"
  /\ IF r.status # 200
       THEN /\ resp' = [status |-> r.status, updated |-> FALSE, body |-> body,
                        kind |-> "appointment-request"]
            /\ UNCHANGED inFlight
       ELSE /\ Len(changeRequests) + Cardinality(CallsInFlight) < MaxChangeRequestsC
            /\ inFlight' = [inFlight EXCEPT ![c] =
                              [pc |-> "write", body |-> body, docId |-> docId]]
            /\ resp' = NoResp
  /\ UNCHANGED <<tz, now, apiKey, appointments, calendarBlocks, geocodeCache,
                 distanceCache, changeRequests, onlineAppointmentRequests, settings,
                 externalServices, fetchLog>>

BeginRequestV11b ==
  \E c \in 1..MaxCalls, body \in ConcurrentBodiesV11b :
    \E docId \in LimitOne(existingSnapV11b(cleanText(body.token).text)) :
      QueryStepV11b(c, body, docId, appointmentRequestV11b(body, docId))

\* lines 1122-1133 of a suspended call: the set on the document its query
\* returned, or the add when the query returned none
WriteStepV11b(c, r) ==
  /\ changeRequests' = r.changeRequests
  /\ inFlight' = [inFlight EXCEPT ![c] = Idle]
  /\ resp' = [status |-> r.status, updated |-> r.updated, body |-> inFlight[c].body,
              kind |-> "appointment-request"]
  /\ UNCHANGED <<tz, now, apiKey, appointments, calendarBlocks, geocodeCache,
                 distanceCache, onlineAppointmentRequests, settings,
                 externalServices, fetchLog>>

FinishRequestV11b ==
  \E c \in 1..MaxCalls :
    /\ inFlight[c].pc = "write"
    /\ WriteStepV11b(c, appointmentRequestV11b(inFlight[c].body, inFlight[c].docId))

NextConcurrentV11b ==
  \/ BeginRequestV11b
  \/ FinishRequestV11b
  \/ ResolveChangeRequest

SpecConcurrentV11b == InitConcurrentV11b /\ [][NextConcurrentV11b]_vars

(***************************************************************************)
(* Properties of concurrent submissions.                                   *)
(***************************************************************************)
\* C27: however two calls for one token interleave at their awaits, the
\* store never holds two changeRequests of that token whose status is
\* pending or open.
C27_ConcurrentCallsKeepOneLiveRequest ==
  \A token \in 1..MaxApptsB :
    \A j, k \in LiveRequestsOf(token) : j = k

\* what does hold: calls that do not overlap keep one live request per token
C27_SerialCallsKeepOneLiveRequest ==
  [][(AtMostOneLiveRequestPerToken /\ CallsInFlight = {})
       => (CallsInFlight' # {} \/ AtMostOneLiveRequestPerToken')]_vars

(***************************************************************************)
(* isSlotFeasible of V5 (src/unnamed/part_000 lines 211-248) called on its *)
(* own: once with the stops of a day and once with one more stop.          *)
(***************************************************************************)
MaxStops == 1

StopV5(hh, mm, duration, lat) ==
  [start |-> At(FirstBookingDay, hh, mm),
   end |-> addMinutes(At(FirstBookingDay, hh, mm), duration),
   location |-> lat, fetched |-> {}]

\* visits a day may hold: by the harbour, near the base, and far from it
StopsV5 ==
  <<StopV5(9, 30, 30, 1), StopV5(11, 20, 30, 2), StopV5(12, 0, 60, 1),
    StopV5(12, 40, 60, 9)>>

\* the stops numbered ids, as getAppointmentsForDay hands them over
stopsOf(ids) ==
  LET order == SetToSeq(ids)
  IN  [i \in 1..Len(order) |-> StopsV5[order[i]]]

SlotStartsV5 == {At(FirstBookingDay, h, 0) : h \in {10, 13}}

FeasibilityInputs ==
  [slotStart : SlotStartsV5, newLocation : {1, 9}, newDuration : {60},
   rawBlock : {"morning"},
   existing : {S \in SUBSET DOMAIN StopsV5 : Cardinality(S) <= MaxStops},
   added : DOMAIN StopsV5, net : {"ok", "fail"}]

InitFeasibility ==
  /\ tz = 0
  /\ now = At(FirstBookingDay, 8, 0)
  /\ apiKey \in BOOLEAN
  /\ appointments = <<>>
  /\ calendarBlocks = <<>>
  /\ geocodeCache = {}
  /\ distanceCache = {}
  /\ resp = NoResp
  /\ InitSide

\* before and after are the answers of isSlotFeasible without and with the
\* added stop
AnswerFeasibility(in, before, after) ==
  /\ resp' = [status |-> 200, input |-> in, before |-> before.ok, after |-> after.ok]
  /\ distanceCache' = distanceCache \cup before.fetched \cup after.fetched
  /\ UNCHANGED <<sideState, tz, now, apiKey, appointments, calendarBlocks, geocodeCache>>

IsSlotFeasible ==
  \E in \in FeasibilityInputs :
    /\ in.added \notin in.existing
    /\ AnswerFeasibility(
         in,
         isSlotFeasible(in.slotStart, in.newLocation, in.newDuration, in.rawBlock,
                        stopsOf(in.existing), in.net),
         isSlotFeasible(in.slotStart, in.newLocation, in.newDuration, in.rawBlock,
                        stopsOf(in.existing \cup {in.added}), in.net))

NextFeasibility == IsSlotFeasible

SpecFeasibility == InitFeasibility /\ [][NextFeasibility]_vars

(***************************************************************************)
(* Properties of isSlotFeasible.                                           *)
(***************************************************************************)
FeasibilityAnswered(r) == "before" \in DOMAIN r

\* C30: a slot that is rejected for the stops of a day is still rejected
\* when the day holds one more stop.
C30_OneMoreStopNeverAdmits ==
  FeasibilityAnswered(resp) => (~resp.before => ~resp.after)

\* what does hold: when every trip is estimated at the same 20 minutes (no
\* key), one more stop never admits a rejected slot
C30_MonotoneUnderFlatTravel ==
  (FeasibilityAnswered(resp) /\ ~apiKey) => (~resp.before => ~resp.after)

====
